---- MODULE Spec2Model ----
(***************************************************************************)
(* Model of the DroneBridge DLSE batch installer:                          *)
(*   batch_install_dlse_allinone.py   (hotplug monitor + device session)   *)
(*   DroneBridgeCommercialSupportSuite.py (the library calls it sequences) *)
(*                                                                         *)
(* Python's None is the empty sequence <<>>, a present value v is <<v>>.   *)
(***************************************************************************)
EXTENDS Integers, Sequences, FiniteSets, TLC

\* ------------------------------------------------------------------ bounds
\* Number of plug-in events the environment performs in one monitoring run.
MaxPlugs == 2
\* Number of rows of a release parameter file and of a user parameter file.
MaxReleaseRows == 2
MaxUserRows == 2
\* Largest device index a call of the index assignment is given.
MaxIndex == 256
\* Number of leading comment lines and of rows below the header of a settings
\* file that gets a license embedded.
MaxComments == 2
MaxBodyRows == 3
\* Number of devices whose activation keys and licenses are looked at, and the
\* largest license type a license is issued with.
MaxMacs == 2
MaxLicenseType == 1
\* Number of whitespace separated parts of a flash_args.txt.
MaxParts == 4
\* Number of DBLogger() calls, of create_log_file calls and of log calls.
MaxLoggers == 2
MaxLogFiles == 2
MaxMessages == 3
\* Number of rows below the header of a settings file that gets indexes assigned.
MaxSettingsRows == 3

\* --------------------------------------------------------- program constants
ESP32C3 == 5
ESP32C5 == 23
ESP32C6 == 13
DLSESupportedChips == {ESP32C3, ESP32C5, ESP32C6}
START_DEVICE_ID_DEFAULT == 18
\* The widths of the tail of a license file: `<{n}sIq512s`.
TYPE_LEN == 4
TIMESTAMP_LEN == 8
SIGNATURE_LEN == 512
\* 0x9000, the address of the settings partition.
DLSE_SETTINGS_PARTITION_ADDRESS == 36864
MaxOctet == 255

None == <<>>
Some(v) == <<v>>
IsNone(o) == o = <<>>
Val(o) == o[1]

\* ------------------------------------------------------------- environment
Ports == {"COM3", "COM4"}

\* Hardware identities: MAC, chip id, chip revision. DevC is an unsupported chip.
DevA == [mac |-> "a0", chip_id |-> 5, chip_rev |-> 1]
DevB == [mac |-> "b0", chip_id |-> 13, chip_rev |-> 0]
DevC == [mac |-> "c0", chip_id |-> 9, chip_rev |-> 0]
Devices == {DevA, DevB, DevC}

\* struct.pack('<6sBH', mac, chip_id, chip_rev) then base64: an injective
\* encoding of the triple; pack raises when a field does not fit its width.
PackActivationKey(mac, chip_id, chip_rev) ==
    IF chip_id \in 0..255 /\ chip_rev \in 0..65535
    THEN Some(<<mac, chip_id, chip_rev>>)
    ELSE None

KeyOf(d) == Val(PackActivationKey(d.mac, d.chip_id, d.chip_rev))
Keys == {KeyOf(d) : d \in Devices}

\* File name stems in the license folder: "<activation_key>.dlselic", or the
\* name a Content-Disposition header of the server dictates.
HeaderName == <<"content-disposition", 0, 0>>
LicNames == Keys \cup {HeaderName}

\* A license file's bytes: long enough to hold the 524 byte tail or not, the
\* activation key in front of the tail, and whether the 512 byte signature
\* verifies over key|type|timestamp under resources/pubkey_DLSE.pem.
License(k, sig) == [len_ok |-> TRUE, activation_key |-> k, sig_ok |-> sig]
ShortBlob == [len_ok |-> FALSE, activation_key |-> <<"", 0, 0>>, sig_ok |-> FALSE]
Blobs == {License(k, s) : k \in Keys, s \in BOOLEAN} \cup {ShortBlob}

\* The device's settings partition as the NVS parser shows it.
BlankNvs == [license_ns |-> FALSE, db_lic_key |-> None]
NoKeyNvs == [license_ns |-> TRUE, db_lic_key |-> None]
NvsWith(b) == [license_ns |-> TRUE, db_lic_key |-> Some(b)]

\* Values of an IP field: dotted quad <net>.<last>, colon form, unset (the empty
\* string), garbage. `net` is the text before the last dot, `last` the text after
\* it read as a number.
Ip4In(net, last) == [kind |-> "v4", net |-> net, last |-> last]
Ip4(last) == Ip4In("192.168.50", last)
Ip6 == [kind |-> "v6", net |-> "", last |-> 0]
IpUnset == [kind |-> "unset", net |-> "", last |-> 0]
IpBad(n) == [kind |-> "bad", net |-> "", last |-> n]
\* Values of a name field: a base and optional trailing decimal digits.
Name(base, num) == [base |-> base, num |-> num]

\* A parameter store reduced to the rows the pipeline touches.
Cfg(ip, host, ssid, lic) ==
    [ip_sta |-> ip, wifi_hostname |-> host, ssid_ap |-> ssid, db_lic_key |-> lic]

VARIABLES
    attached,            \* port -> device plugged into it (environment)
    dev_nvs,             \* device -> content of its settings partition at 0x9000
    plugs,               \* plug-in events so far
    known_ports,         \* main: known_ports
    new_ports,           \* main: ports of the for loop not yet visited
    pc,                  \* position of main
    port,                \* main: ESP_SERIAL_PORT
    esp_chip_id,         \* main: _esp_chip_id
    activation_key,      \* main: activation_key
    server_available,    \* main: _dlse_lic_server_available
    license_file_path,   \* main: _license_file_path
    lic_folder,          \* files of DLSE_LICENSE_FOLDER, by stem
    extracted_license,   \* <tmp>/extracted_license.dlselic
    merged_csv,          \* the merged settings file (merged_csv_path)
    lic_added_csv,       \* <merged>_lic_added.csv (settings_with_lic)
    settings_bin,        \* the rendered settings partition binary
    address_binary_map,  \* main: address_binary_map
    START_DEVICE_ID,     \* main: START_DEVICE_ID
    session,             \* history of the current (or last) device session
    flashed,             \* the START_DEVICE_ID of each session that ran the flasher
    merge_call,          \* db_csv_merge_user_parameters_with_release: the two files
    merge_out,           \* ... what the call returned, wrote and reported
    update_call,         \* db_csv_update_parameters: the file and the arguments
    update_out,          \* ... what the call returned and left in the file
    embed_call,          \* db_embed_license_in_settings_csv: the files, the flag
    embed_out,           \* ... what the call returned and wrote
    validate_call,       \* db_dlse_validate_license: the bytes, the expected key
    validate_out,        \* ... what the call returned
    key_call,            \* db_get_activation_key: what the chip reports
    key_out,             \* ... what the call returned
    map_call,            \* db_create_address_binary_map: flash_args.txt, the chip
    map_out,             \* ... what the call returned
    logger,              \* DBLogger: the class, its objects, the log files
    reindex              \* db_csv_update_parameters called twice on one file

vars == <<attached, dev_nvs, plugs, known_ports, new_ports, pc, port, esp_chip_id,
          activation_key, server_available, license_file_path, lic_folder,
          extracted_license, merged_csv, lic_added_csv, settings_bin,
          address_binary_map, START_DEVICE_ID, session, flashed,
          merge_call, merge_out, update_call, update_out,
          embed_call, embed_out, validate_call, validate_out, key_call, key_out,
          map_call, map_out, logger, reindex>>

\* The calls of the configuration functions that are looked at on their own.
calls == <<merge_call, merge_out, update_call, update_out,
           embed_call, embed_out, validate_call, validate_out, key_call, key_out,
           map_call, map_out, logger, reindex>>


\* ------------------------------------------------------ library: licenses

\* db_dlse_validate_license: returns the tuple (is_valid, license_info).
\* resources/pubkey_DLSE.pem ships with the suite and is taken as present.
db_dlse_validate_license(license_data, match_activation_key) ==
    IF ~license_data.len_ok
    THEN <<FALSE, None>>                                   \* activation_key_len <= 0
    ELSE IF ~license_data.sig_ok
    THEN <<FALSE, None>>                                   \* InvalidSignature
    ELSE IF ~IsNone(match_activation_key)
            /\ license_data.activation_key # Val(match_activation_key)
    THEN <<FALSE, Some(license_data.activation_key)>>      \* not assigned to that key
    ELSE <<TRUE, Some(license_data.activation_key)>>

\* Python truth value of a tuple: true unless it is empty.
PyTruthy(tuple) == Len(tuple) # 0

\* Mutant: the lookup builds a wrong file name and never finds the cached file.
db_get_dlse_lic_from_local_storage_NeverFinds(folder, key) == None

\* db_get_dlse_lic_from_local_storage: the stem of the valid cached file, or None.
\* (A missing folder and a missing file both end in None.)
db_get_dlse_lic_from_local_storage(folder, key) ==
    IF IsNone(folder[key])
    THEN None
    ELSE IF ~db_dlse_validate_license(Val(folder[key]), Some(key))[1]
    THEN None
    ELSE Some(key)

\* db_get_dlse_lic_via_serial after the partition was read: the blob that is
\* written to the temporary file and returned, or None.
ExtractLicense(nvs) ==
    IF ~nvs.license_ns
    THEN None                                              \* namespace not found
    ELSE IF IsNone(nvs.db_lic_key)
    THEN None                                              \* db_lic_key not found
    ELSE IF ~PyTruthy(db_dlse_validate_license(Val(nvs.db_lic_key), None))
    THEN None                                              \* "license is invalid"
    ELSE nvs.db_lic_key

\* ------------------------------------------------- library: configuration

\* Mutant: addresses are not validated.
validate_ip_AcceptsAll(ip) == TRUE

validate_ip(ip) ==
    \/ ip.kind = "v4" /\ ip.last \in 0..MaxOctet
    \/ ip.kind = "v6"

\* Mutant: the last octet is not replaced.
ReplaceLastOctet_KeepsAddress(ip, index) == ip

\* Mutant: the index is appended to the digits that are there.
StripAndAppend_AppendOnly(name, index) ==
    [name EXCEPT !.num = IF IsNone(@) THEN <<index>> ELSE <<Val(@) * 10 + index>>]

\* ip_parts = value.split('.'); ip_parts[-1] = str(_index); '.'.join(ip_parts)
ReplaceLastOctet(ip, index) ==
    IF ip.kind = "v4" THEN Ip4In(ip.net, index) ELSE IpBad(index)

\* value.rstrip('0123456789') + str(_index); str of a negative index starts
\* with '-', which becomes part of the text before the trailing digits.
StripAndAppend(name, index) ==
    IF index >= 0
    THEN Name(name.base, Some(index))
    ELSE Name(name.base \o "-", Some(-index))

\* Mutant: the file is written and success returned although no key was updated.
db_csv_update_parameters_AlwaysWrites(csv, index, new_ip, new_hostname, new_ssid_ap) ==
    [ok |-> TRUE, wrote |-> TRUE, csv |-> csv]

\* db_csv_update_parameters: [ok, wrote, csv]; csv is the file after the call,
\* wrote tells whether the call opened it for writing.
db_csv_update_parameters(csv, index, new_ip, new_hostname, new_ssid_ap) ==
    LET ip_present == ~IsNone(csv.ip_sta)
        ip_cur     == Val(csv.ip_sta)
        proposed   == ReplaceLastOctet(ip_cur, index)
        ip_fail    == /\ ip_present
                      /\ IF IsNone(new_ip)
                         THEN validate_ip(ip_cur) /\ ~validate_ip(proposed)
                         ELSE ~validate_ip(Val(new_ip))
        ip_updated == /\ ip_present
                      /\ IF IsNone(new_ip) THEN validate_ip(ip_cur) ELSE TRUE
        ip_new     == IF ~ip_updated THEN csv.ip_sta
                      ELSE IF IsNone(new_ip) THEN Some(proposed) ELSE new_ip
        hostname_updated == ~IsNone(csv.wifi_hostname)
        host_new   == IF ~hostname_updated THEN csv.wifi_hostname
                      ELSE IF IsNone(new_hostname)
                      THEN Some(StripAndAppend(Val(csv.wifi_hostname), index))
                      ELSE new_hostname
        ssid_ap_updated == ~IsNone(csv.ssid_ap)
        ssid_new   == IF ~ssid_ap_updated THEN csv.ssid_ap
                      ELSE IF IsNone(new_ssid_ap)
                      THEN Some(StripAndAppend(Val(csv.ssid_ap), index))
                      ELSE new_ssid_ap
    IN  IF ip_fail
        THEN [ok |-> FALSE, wrote |-> FALSE, csv |-> csv]
        ELSE IF ~ip_updated /\ ~hostname_updated /\ ~ssid_ap_updated
        THEN [ok |-> FALSE, wrote |-> FALSE, csv |-> csv]
        ELSE [ok |-> TRUE, wrote |-> TRUE,
              csv |-> Cfg(ip_new, host_new, ssid_new, csv.db_lic_key)]

\* db_embed_license_in_settings_csv: the rows with db_lic_key set to the license.
db_embed_license_in_settings_csv(csv, license_content) ==
    [csv EXCEPT !.db_lic_key = Some(license_content)]

\* db_get_bin_folder: release sub folder of a chip id, 0 when unsupported.
db_get_bin_folder(chip_id) ==
    IF chip_id = 5 THEN "esp32c3_generic"
    ELSE IF chip_id = 13 THEN "esp32c5_generic"
    ELSE IF chip_id = 23 THEN "esp32c5_generic"
    ELSE "0"

\* db_create_address_binary_map when flash_args.txt is readable: firmware images
\* of the chip's folder plus the settings binary at 0x9000.
db_create_address_binary_map(chip_id, settings_partition_bin) ==
    [firmware |-> db_get_bin_folder(chip_id), settings |-> settings_partition_bin]

\* db_flash_binaries before esptool is started: FALSE when it returns early.
FlasherStarts(map, bin_file) ==
    /\ ~IsNone(map)                                        \* not address_binary_map
    /\ ~IsNone(bin_file)                                   \* every file exists

\* ----------------------------------------------------- library: the merge

\* A row of a parameter file: the columns key, type, encoding and value.
Row(key, type, encoding, value) ==
    [key |-> key, type |-> type, encoding |-> encoding, value |-> value]

\* The keys of the rows that are not namespace rows (the keys of user_params
\* and of release_params).
DataKeys(rows) ==
    {rows[i].key : i \in {j \in 1..Len(rows) : rows[j].type # "namespace"}}

\* user_params[key] = row, row after row: the last data row of a key stays.
user_params(rows) ==
    [k \in DataKeys(rows) |->
        rows[CHOOSE i \in 1..Len(rows) :
                /\ rows[i].key = k
                /\ rows[i].type # "namespace"
                /\ \A j \in (i + 1)..Len(rows) :
                      ~(rows[j].key = k /\ rows[j].type # "namespace")]]

\* Mutant: the two differences are computed the other way round.
missing_in_user_Swapped(user_keys, release_keys) == user_keys \ release_keys

missing_in_user(user_keys, release_keys) == release_keys \ user_keys
obsolete_in_user(user_keys, release_keys) == user_keys \ release_keys

\* Mutant: the rows of the user file that the release does not know are kept.
merged_rows_KeepsObsolete(release_rows, params) ==
    release_rows \o
    [i \in 1..Cardinality(DOMAIN params \ DataKeys(release_rows)) |->
        params[CHOOSE k \in DOMAIN params \ DataKeys(release_rows) : TRUE]]

\* The loop over release_rows: a row whose key is a key of user_params gets the
\* value of the user's row, every other row is taken as it is.
merged_rows(release_rows, params) ==
    [i \in 1..Len(release_rows) |->
        IF release_rows[i].key \in DOMAIN params
        THEN [release_rows[i] EXCEPT !.value = params[release_rows[i].key].value]
        ELSE release_rows[i]]

\* db_csv_merge_user_parameters_with_release on the rows of the two files (None:
\* the file does not exist): the rows written to <user>_merged.csv, or None, and
\* the two lists of keys that are logged as warnings.
db_csv_merge_user_parameters_with_release(user, release) ==
    IF IsNone(user) \/ IsNone(release)
    THEN [merged |-> None, missing |-> {}, obsolete |-> {}]
    ELSE LET user_keys    == DataKeys(Val(user))
             release_keys == DataKeys(Val(release))
         IN  [merged   |-> Some(merged_rows(Val(release), user_params(Val(user)))),
              missing  |-> missing_in_user(user_keys, release_keys),
              obsolete |-> obsolete_in_user(user_keys, release_keys)]

\* ------------------------------------------ library: embedding the license

\* The lines of a settings file besides its rows: a comment line "#<text>", and
\* the line "<text>#" that csv.writer makes of a comment that closes a quote.
CommentLine(text) == [comment |-> text]
ClosingLine(text) == [closing |-> text]
IsComment(line) == "comment" \in DOMAIN line
IsClosing(line) == "closing" \in DOMAIN line
IsRowLine(line) == "key" \in DOMAIN line
\* The column header is a row like any other to csv.reader.
HeaderRow == Row("key", "type", "encoding", "value")

\* base64.b64encode(license_content).decode('utf-8') of the license files used.
b64encode_text(license_content) ==
    CASE license_content = "lic1" -> "bGljMQ=="
      [] license_content = "lic2" -> "bGljMg=="
      [] OTHER -> ""

\* csv.reader(f, quotechar='#') and csv.writer(f, quotechar='#') line by line:
\* the '#' of a comment line opens a quoted field that runs over the following
\* lines up to the next '#' (the start of the next comment line) or the end of
\* the file. The lines inside the quote are no rows of their own (visible is
\* FALSE) and are written back as they were; the comment that closes the quote
\* comes back with its '#' at the end, and a quote that is still open at the
\* end of the file is closed by a line "#".
RECURSIVE ReadWithHashQuote(_, _)
ReadWithHashQuote(lines, in_quote) ==
    IF lines = <<>>
    THEN IF in_quote THEN <<[line |-> CommentLine(""), visible |-> FALSE]>> ELSE <<>>
    ELSE LET l == Head(lines)
         IN  IF IsComment(l) /\ ~in_quote
             THEN <<[line |-> l, visible |-> FALSE]>>
                      \o ReadWithHashQuote(Tail(lines), TRUE)
             ELSE IF IsComment(l) \/ IsClosing(l)
             THEN <<[line |-> IF IsComment(l) /\ l.comment # ""
                              THEN ClosingLine(l.comment) ELSE l,
                     visible |-> FALSE]>>
                      \o ReadWithHashQuote(Tail(lines), FALSE)
             ELSE <<[line |-> l, visible |-> ~in_quote]>>
                      \o ReadWithHashQuote(Tail(lines), in_quote)

\* Mutant: the license row is appended whether the key is there or not.
db_embed_license_in_file_AlwaysAppends(file, license_b64) ==
    file \o <<Row("db_lic_key", "data", "base64", license_b64)>>

\* db_embed_license_in_settings_csv, lines 499-527 and 540-543: the lines written
\* for the lines read.
db_embed_license_in_file(file, license_b64) ==
    LET items == ReadWithHashQuote(file, FALSE)
        rows  == [i \in 1..Len(items) |-> items[i].line]
        IsRowAt(i) == items[i].visible /\ IsRowLine(rows[i])
        header_exists ==
            \E i \in 1..Len(items) :
                IsRowAt(i) /\ rows[i].key = "license" /\ rows[i].type = "namespace"
        key_indexes == {i \in 1..Len(items) : IsRowAt(i) /\ rows[i].key = "db_lic_key"}
        key_index == CHOOSE i \in key_indexes : \A j \in key_indexes : j <= i
        license_namespace_header == Row("license", "namespace", "", "")
        license_key_row == Row("db_lic_key", "data", "base64", license_b64)
    IN  IF key_indexes # {}
        THEN [rows EXCEPT ![key_index] = license_key_row]
        ELSE IF ~header_exists
        THEN rows \o <<license_namespace_header, license_key_row>>
        ELSE rows \o <<license_key_row>>

\* ------------------------------------------------- library: license bytes

\* struct, little-endian ('<'): an unsigned integer in n bytes and back.
RECURSIVE ToLE(_, _)
ToLE(v, n) == IF n = 0 THEN <<>> ELSE <<v % 256>> \o ToLE(v \div 256, n - 1)

RECURSIVE FromLE(_)
FromLE(bytes) ==
    IF Len(bytes) = 0 THEN 0 ELSE bytes[1] + 256 * FromLE(Tail(bytes))

\* base64.b64encode: the sextets of the bytes, 64 for the padding '='.
RECURSIVE b64encode(_)
b64encode(bytes) ==
    IF Len(bytes) = 0
    THEN <<>>
    ELSE IF Len(bytes) = 1
    THEN <<bytes[1] \div 4, (bytes[1] % 4) * 16, 64, 64>>
    ELSE IF Len(bytes) = 2
    THEN <<bytes[1] \div 4, (bytes[1] % 4) * 16 + bytes[2] \div 16,
           (bytes[2] % 16) * 4, 64>>
    ELSE <<bytes[1] \div 4, (bytes[1] % 4) * 16 + bytes[2] \div 16,
           (bytes[2] % 16) * 4 + bytes[3] \div 64, bytes[3] % 64>>
         \o b64encode(SubSeq(bytes, 4, Len(bytes)))

\* Mutant: fields that do not fit their width are cut to it instead of raising.
struct_pack_6sBH_Truncates(mac, chip_id, chip_rev) ==
    Some(mac \o <<chip_id % 256>> \o ToLE(chip_rev % 65536, 2))

\* struct.pack('<6sBH', mac_bytes, chip_id, chip_rev): None for struct.error.
struct_pack_6sBH(mac, chip_id, chip_rev) ==
    IF chip_id \in 0..255 /\ chip_rev \in 0..65535
    THEN Some(mac \o <<chip_id>> \o ToLE(chip_rev, 2))
    ELSE None

\* db_get_activation_key: None when esptool cannot connect (outer except) or the
\* key cannot be calculated (inner except).
db_get_activation_key(connects, mac, chip_id, chip_rev) ==
    IF ~connects
    THEN None
    ELSE LET packed_data == struct_pack_6sBH(mac, chip_id, chip_rev)
         IN  IF IsNone(packed_data) THEN None ELSE Some(b64encode(Val(packed_data)))

\* Mutant: the tail is taken as 528 bytes.
activation_key_len_Tail528(license_data) == Len(license_data) - 528

\* line 313.
activation_key_len(license_data) ==
    Len(license_data) - SIGNATURE_LEN - TYPE_LEN - TIMESTAMP_LEN

\* struct.unpack(f"<{n}sIq512s", license_data): None for struct.error, which is
\* raised when the data is not n + 524 bytes long.
struct_unpack_sIq512s(n, license_data) ==
    IF Len(license_data) # n + TYPE_LEN + TIMESTAMP_LEN + SIGNATURE_LEN
    THEN None
    ELSE Some([activation_key       |-> SubSeq(license_data, 1, n),
               license_type         |-> FromLE(SubSeq(license_data, n + 1, n + TYPE_LEN)),
               valid_till_timestamp |->
                   FromLE(SubSeq(license_data, n + TYPE_LEN + 1,
                                 n + TYPE_LEN + TIMESTAMP_LEN)),
               signature            |->
                   SubSeq(license_data, n + TYPE_LEN + TIMESTAMP_LEN + 1,
                          Len(license_data))])

\* struct.pack(f"<{n}sIq", activation_key, license_type, valid_till_timestamp).
struct_pack_sIq(key_field, license_type, valid_till_timestamp) ==
    key_field \o ToLE(license_type, TYPE_LEN)
                   \o ToLE(valid_till_timestamp, TIMESTAMP_LEN)

\* The signature the holder of the private key makes of a message: 512 bytes
\* that depend on every byte of the message and on its position.
RECURSIVE Digest(_, _)
Digest(data, i) ==
    IF i > Len(data) THEN 0 ELSE (i * (data[i] + 1) + 31 * Digest(data, i + 1)) % 65521

Sign(data) ==
    [i \in 1..SIGNATURE_LEN |->
        IF i = 1 THEN Digest(data, 1) % 256
        ELSE IF i = 2 THEN Digest(data, 1) \div 256
        ELSE (Digest(data, 1) + i) % 256]

\* Mutant: every signature verifies.
verify_AcceptsAll(signature, data) == TRUE

\* public_key.verify(signature, data, PSS, SHA256): FALSE for InvalidSignature.
verify(signature, data) == signature = Sign(data)

\* Mutant: the expected activation key is not compared.
NotAssignedTo_NeverChecks(key_field, match_activation_key) == FALSE

\* lines 349-350: an expected key is given and is not the key of the license.
NotAssignedTo(key_field, match_activation_key) ==
    /\ ~IsNone(match_activation_key)
    /\ b64encode(key_field) # Val(match_activation_key)

\* db_dlse_validate_license on the bytes of the license file: the tuple
\* (is_valid, license_info).
db_dlse_validate_license_data(license_data, match_activation_key) ==
    LET n == activation_key_len(license_data)
    IN  IF n <= 0
        THEN <<FALSE, None>>
        ELSE LET unpacked == struct_unpack_sIq512s(n, license_data)
             IN  IF IsNone(unpacked)
                 THEN <<FALSE, None>>
                 ELSE LET u == Val(unpacked)
                          data_to_verify ==
                              struct_pack_sIq(u.activation_key, u.license_type,
                                              u.valid_till_timestamp)
                          license_info ==
                              [activation_key_b64 |-> b64encode(u.activation_key),
                               license_type       |-> u.license_type,
                               valid_till         |-> u.valid_till_timestamp,
                               data_to_verify     |-> b64encode(data_to_verify)]
                      IN  IF ~verify(u.signature, data_to_verify)
                          THEN <<FALSE, None>>
                          ELSE IF NotAssignedTo(u.activation_key, match_activation_key)
                          THEN <<FALSE, Some(license_info)>>
                          ELSE <<TRUE, Some(license_info)>>

\* ------------------------------------------- library: the flash address map

\* The parts of flash_args.txt: "0x<digits>", a path "<dir>/<base>", an option.
HexPart(digits) == [hex |-> digits]
FilePart(dir, base) == [dir |-> dir, base |-> base]
OptionPart(text) == [option |-> text]

\* part.startswith('0x')
StartsWith0x(part) == "hex" \in DOMAIN part

\* int(part, 16): None for ValueError (no digit, or a character that is none).
RECURSIVE HexDigitsValue(_, _)
HexDigitsValue(digits, acc) ==
    IF Len(digits) = 0 THEN acc
    ELSE HexDigitsValue(Tail(digits), 16 * acc + Head(digits))

int16(part) ==
    IF Len(part.hex) = 0 \/ \E i \in 1..Len(part.hex) : part.hex[i] \notin 0..15
    THEN None
    ELSE Some(HexDigitsValue(part.hex, 0))

\* os.path.basename of a part: the text after the last slash.
basename(part) == IF "base" \in DOMAIN part THEN [text |-> part.base] ELSE part

\* os.path.join(_dlse_release_path, bin_folder, binary_filename)
ReleasePath(bin_folder, binary_filename) ==
    [folder |-> bin_folder, name |-> binary_filename]

\* address_binary_map[address] = path
MapSet(map, address, path) ==
    [a \in DOMAIN map \cup {address} |-> IF a = address THEN path ELSE map[a]]

\* lines 403-419: the while loop over the parts; None when int() raises.
RECURSIVE ParseFlashArgs(_, _, _, _)
ParseFlashArgs(parts, i, bin_folder, map) ==
    IF i > Len(parts)
    THEN Some(map)
    ELSE IF ~StartsWith0x(parts[i])
    THEN ParseFlashArgs(parts, i + 1, bin_folder, map)
    ELSE IF IsNone(int16(parts[i]))
    THEN None
    ELSE IF i + 1 <= Len(parts)
    THEN ParseFlashArgs(parts, i + 2, bin_folder,
                        MapSet(map, Val(int16(parts[i])),
                               ReleasePath(bin_folder, basename(parts[i + 1]))))
    ELSE ParseFlashArgs(parts, i + 1, bin_folder, map)

\* Mutant: the settings partition is entered before flash_args.txt is read.
AddressBinaryMap_SettingsFirst(parts, bin_folder, settings_partition_bin_path) ==
    ParseFlashArgs(parts, 1, bin_folder,
                   MapSet(<<>>, DLSE_SETTINGS_PARTITION_ADDRESS,
                          settings_partition_bin_path))

\* lines 397-423: the map of a flash_args.txt that exists; None after an
\* exception.
AddressBinaryMap(parts, bin_folder, settings_partition_bin_path) ==
    LET parsed == ParseFlashArgs(parts, 1, bin_folder, <<>>)
    IN  IF IsNone(parsed)
        THEN None
        ELSE Some(MapSet(Val(parsed), DLSE_SETTINGS_PARTITION_ADDRESS,
                         settings_partition_bin_path))

\* db_create_address_binary_map on the parts of flash_args.txt. For a chip id
\* without folder os.path.join(path, 0, ...) raises a TypeError outside the try.
db_create_address_binary_map_of(exists, parts, chip_id, settings_partition_bin_path) ==
    LET bin_folder == db_get_bin_folder(chip_id)
    IN  IF bin_folder = "0"
        THEN [raised |-> TRUE, map |-> None]
        ELSE IF ~exists
        THEN [raised |-> FALSE, map |-> None]
        ELSE [raised |-> FALSE,
              map    |-> AddressBinaryMap(parts, bin_folder, settings_partition_bin_path)]

\* ------------------------------------------------------ library: DBLogger

\* Mutant: every DBLogger() makes an object of its own.
DBLogger_new_Fresh(instance, objects) == objects + 1

\* DBLogger.__new__: the object of the class, made at the first call. Objects
\* are numbered; `objects` is the number made so far.
DBLogger_new(instance, objects) ==
    IF IsNone(instance) THEN objects + 1 ELSE Val(instance)

\* The logger state after logger = DBLogger().
WithLogger(lg) ==
    LET obj == DBLogger_new(lg.instance, Len(lg.log_file))
    IN  [lg EXCEPT
            !.instance = IF IsNone(@) THEN Some(obj) ELSE @,
            !.log_file = IF obj > Len(@) THEN Append(@, None) ELSE @,
            !.loggers  = Append(@, obj)]

\* create_log_file(log_dir_path) on the object `obj`: a new file name in that
\* directory becomes the object's _log_file.
create_log_file(lg, obj, log_dir_path) ==
    [lg EXCEPT
        !.files    = Append(@, [dir |-> log_dir_path, lines |-> <<>>]),
        !.log_file = [@ EXCEPT ![obj] = Some(Len(lg.files) + 1)]]

\* log(message) on the object `obj`. makedirs_ok: the directory "logs" can be
\* made when no log file is set; write_ok: the file can be opened and written
\* (otherwise the except clause prints the error). A failing makedirs leaves
\* log() as an exception.
log(lg, logger_index, obj, message, makedirs_ok, write_ok) ==
    LET configured == ~IsNone(lg.log_file[obj])
    IN  IF ~configured /\ ~makedirs_ok
        THEN [lg EXCEPT !.calls =
                 Append(@, [message |-> message, logger |-> logger_index,
                            configured |-> FALSE, current |-> None,
                            latest |-> Len(lg.files), written |-> FALSE,
                            raised |-> TRUE])]
        ELSE LET lg1  == IF configured THEN lg ELSE create_log_file(lg, obj, "logs")
                 file == Val(lg1.log_file[obj])
             IN  [lg1 EXCEPT
                     !.files = IF write_ok
                               THEN [@ EXCEPT ![file].lines = Append(@, message)]
                               ELSE @,
                     !.calls =
                         Append(@, [message |-> message, logger |-> logger_index,
                                    configured |-> configured, current |-> Some(file),
                                    latest |-> Len(lg1.files), written |-> write_ok,
                                    raised |-> FALSE])]

\* --------------------------------------- library: index assignment by rows

\* Mutant: the row is written with the columns type and encoding emptied.
WithValue_OnlyKeyAndValue(row, value) ==
    [key |-> row.key, type |-> "", encoding |-> "", value |-> value]

\* row['value'] = value
WithValue(row, value) == [row EXCEPT !.value = value]

\* lines 816-871, the body of the loop for one row: the row afterwards, whether
\* one of the three keys was updated, and whether the function returns False.
UpdateRow(row, index, new_ip, new_hostname, new_ssid_ap) ==
    LET kept    == [row |-> row, updated |-> FALSE, fail |-> FALSE]
        failed  == [row |-> row, updated |-> FALSE, fail |-> TRUE]
        set(v)  == [row |-> WithValue(row, v), updated |-> TRUE, fail |-> FALSE]
    IN  IF row.key = "ip_sta"
        THEN IF IsNone(new_ip)
             THEN IF validate_ip(row.value)
                  THEN IF validate_ip(ReplaceLastOctet(row.value, index))
                       THEN set(ReplaceLastOctet(row.value, index))
                       ELSE failed
                  ELSE kept
             ELSE IF validate_ip(Val(new_ip)) THEN set(Val(new_ip)) ELSE failed
        ELSE IF row.key = "wifi_hostname"
        THEN IF IsNone(new_hostname)
             THEN set(StripAndAppend(row.value, index))
             ELSE set(Val(new_hostname))
        ELSE IF row.key = "ssid_ap"
        THEN IF IsNone(new_ssid_ap)
             THEN set(StripAndAppend(row.value, index))
             ELSE set(Val(new_ssid_ap))
        ELSE kept

\* db_csv_update_parameters on the rows below the header: whether it returns
\* True, and the rows of the file afterwards.
db_csv_update_rows(data_rows, index, new_ip, new_hostname, new_ssid_ap) ==
    LET done == [k \in 1..Len(data_rows) |->
                    UpdateRow(data_rows[k], index, new_ip, new_hostname, new_ssid_ap)]
    IN  IF \E k \in 1..Len(data_rows) : done[k].fail
        THEN [ok |-> FALSE, rows |-> data_rows]
        ELSE IF ~\E k \in 1..Len(data_rows) : done[k].updated
        THEN [ok |-> FALSE, rows |-> data_rows]
        ELSE [ok |-> TRUE, rows |-> [k \in 1..Len(data_rows) |-> done[k].row]]

\* ------------------------------------------------------------ main: control

\* Mutant: a failed device recovery goes on (the `continue` of line 154 is lost).
NextPc_RecoveryFailureGoesOn(step, ok) ==
    CASE step = "chip_id"           -> IF ok THEN "activation_key" ELSE "for"
      [] step = "activation_key"    -> IF ok THEN "probe" ELSE "for"
      [] step = "probe"             -> IF ok THEN "request" ELSE "local_storage"
      [] step = "local_storage"     -> IF ok THEN "update_parameters" ELSE "via_serial"
      [] step = "via_serial"        -> "update_parameters"
      [] step = "request"           -> IF ok THEN "update_parameters" ELSE "for"
      [] step = "update_parameters" -> IF ok THEN "embed_license" ELSE "for"
      [] step = "embed_license"     -> IF ok THEN "generate_binary" ELSE "for"
      [] step = "generate_binary"   -> IF ok THEN "address_map" ELSE "for"
      [] step = "address_map"       -> "flash"
      [] step = "flash"             -> "done"
      [] OTHER                      -> "for"

\* Mutant: the branches of `if not _dlse_lic_server_available` are swapped.
NextPc_ProbeSwapped(step, ok) ==
    CASE step = "chip_id"           -> IF ok THEN "activation_key" ELSE "for"
      [] step = "activation_key"    -> IF ok THEN "probe" ELSE "for"
      [] step = "probe"             -> IF ok THEN "local_storage" ELSE "request"
      [] step = "local_storage"     -> IF ok THEN "update_parameters" ELSE "via_serial"
      [] step = "via_serial"        -> IF ok THEN "update_parameters" ELSE "for"
      [] step = "request"           -> IF ok THEN "update_parameters" ELSE "for"
      [] step = "update_parameters" -> IF ok THEN "embed_license" ELSE "for"
      [] step = "embed_license"     -> IF ok THEN "generate_binary" ELSE "for"
      [] step = "generate_binary"   -> IF ok THEN "address_map" ELSE "for"
      [] step = "address_map"       -> "flash"
      [] step = "flash"             -> "done"
      [] OTHER                      -> "for"

\* Mutant: a cache miss aborts the session, device recovery is never tried.
NextPc_NoRecovery(step, ok) ==
    CASE step = "chip_id"           -> IF ok THEN "activation_key" ELSE "for"
      [] step = "activation_key"    -> IF ok THEN "probe" ELSE "for"
      [] step = "probe"             -> IF ok THEN "request" ELSE "local_storage"
      [] step = "local_storage"     -> IF ok THEN "update_parameters" ELSE "for"
      [] step = "via_serial"        -> IF ok THEN "update_parameters" ELSE "for"
      [] step = "request"           -> IF ok THEN "update_parameters" ELSE "for"
      [] step = "update_parameters" -> IF ok THEN "embed_license" ELSE "for"
      [] step = "embed_license"     -> IF ok THEN "generate_binary" ELSE "for"
      [] step = "generate_binary"   -> IF ok THEN "address_map" ELSE "for"
      [] step = "address_map"       -> "flash"
      [] step = "flash"             -> "done"
      [] OTHER                      -> "for"

\* Mutant: a failed index assignment goes on (the `continue` of line 179 is lost).
NextPc_UpdateFailureGoesOn(step, ok) ==
    CASE step = "chip_id"           -> IF ok THEN "activation_key" ELSE "for"
      [] step = "activation_key"    -> IF ok THEN "probe" ELSE "for"
      [] step = "probe"             -> IF ok THEN "request" ELSE "local_storage"
      [] step = "local_storage"     -> IF ok THEN "update_parameters" ELSE "via_serial"
      [] step = "via_serial"        -> IF ok THEN "update_parameters" ELSE "for"
      [] step = "request"           -> IF ok THEN "update_parameters" ELSE "for"
      [] step = "update_parameters" -> "embed_license"
      [] step = "embed_license"     -> IF ok THEN "generate_binary" ELSE "for"
      [] step = "generate_binary"   -> IF ok THEN "address_map" ELSE "for"
      [] step = "address_map"       -> "flash"
      [] step = "flash"             -> "done"
      [] OTHER                      -> "for"

\* Mutant: the chip gate of line 126 lets every device through.
NextPc_ChipGateOpen(step, ok) ==
    CASE step = "chip_id"           -> "activation_key"
      [] step = "activation_key"    -> IF ok THEN "probe" ELSE "for"
      [] step = "probe"             -> IF ok THEN "request" ELSE "local_storage"
      [] step = "local_storage"     -> IF ok THEN "update_parameters" ELSE "via_serial"
      [] step = "via_serial"        -> IF ok THEN "update_parameters" ELSE "for"
      [] step = "request"           -> IF ok THEN "update_parameters" ELSE "for"
      [] step = "update_parameters" -> IF ok THEN "embed_license" ELSE "for"
      [] step = "embed_license"     -> IF ok THEN "generate_binary" ELSE "for"
      [] step = "generate_binary"   -> IF ok THEN "address_map" ELSE "for"
      [] step = "address_map"       -> "flash"
      [] step = "flash"             -> "done"
      [] OTHER                      -> "for"

\* Where main goes after a step of the device session (lines 120-221): a failed
\* step runs `continue`, the results of the address map and of the flasher are
\* not looked at.
NextPc(step, ok) ==
    CASE step = "chip_id"           -> IF ok THEN "activation_key" ELSE "for"
      [] step = "activation_key"    -> IF ok THEN "probe" ELSE "for"
      [] step = "probe"             -> IF ok THEN "request" ELSE "local_storage"
      [] step = "local_storage"     -> IF ok THEN "update_parameters" ELSE "via_serial"
      [] step = "via_serial"        -> IF ok THEN "update_parameters" ELSE "for"
      [] step = "request"           -> IF ok THEN "update_parameters" ELSE "for"
      [] step = "update_parameters" -> IF ok THEN "embed_license" ELSE "for"
      [] step = "embed_license"     -> IF ok THEN "generate_binary" ELSE "for"
      [] step = "generate_binary"   -> IF ok THEN "address_map" ELSE "for"
      [] step = "address_map"       -> "flash"
      [] step = "flash"             -> "done"
      [] OTHER                      -> "for"

\* What the server may answer with status 200 to a request for `key`.
ServerBodies(key) == {License(key, TRUE), License(key, FALSE)}

\* A record that is well formed, signed by the trusted key and issued to `key`.
IsValidLicenseFor(blob, key) ==
    blob.len_ok /\ blob.sig_ok /\ blob.activation_key = key

\* The license folder holds such a record under the stem `key`.
CacheHoldsValid(folder, key) ==
    ~IsNone(folder[key]) /\ IsValidLicenseFor(Val(folder[key]), key)

NoSession ==
    [port |-> "", steps |-> <<>>, state |-> "None", wrote |-> FALSE,
     index |-> 0, had_cached |-> FALSE, recovered |-> None, handles |-> 0]

\* Mutant: the handle on the port is not closed.
ClosePort_Leaks(handles) == handles

\* `esp._port.close()` in the finally clauses, and the exit of the with
\* statement: the handles on the serial port that are open afterwards.
ClosePort(handles) == handles - 1

\* The handles a serial function leaves open on the port when it returns:
\* esptool.detect_chip gave it one (`connected`) or raised before.
HandlesAtReturn(handles, connected) ==
    IF connected THEN ClosePort(handles + 1) ELSE handles

\* esptool.detect_chip can open the port: the device is there and no handle
\* on the port is open.
CanConnect == ~IsNone(attached[port]) /\ session.handles = 0

\* The session history after `step` ended with result `ok`.
Logged(step, ok) ==
    [session EXCEPT
        !.steps = Append(@, [step |-> step, ok |-> ok]),
        !.state = IF NextPc(step, ok) # "for" THEN @
                  ELSE IF step = "done" THEN "Done" ELSE "Aborted"]

Device == Val(attached[port])
Present == ~IsNone(attached[port])

\* ------------------------------------------------------------- environment
\* Ports change while main sleeps (line 115). A device that goes away during its
\* session shows as the failure of the session's next device I/O.

\* The socket each device is plugged into: DevA and DevB keep theirs, DevC moves.
DevicesAt(p) == IF p = "COM3" THEN {DevA, DevC} ELSE {DevB, DevC}

Attach(p, d) ==
    /\ pc = "poll"
    /\ plugs < MaxPlugs
    /\ IsNone(attached[p])
    /\ d \in DevicesAt(p)
    /\ \A q \in Ports : attached[q] # Some(d)
    /\ attached' = [attached EXCEPT ![p] = Some(d)]
    /\ plugs' = plugs + 1
    /\ UNCHANGED <<calls, flashed, dev_nvs, known_ports, new_ports, pc, port, esp_chip_id,
                   activation_key, server_available, license_file_path, lic_folder,
                   extracted_license, merged_csv, lic_added_csv, settings_bin,
                   address_binary_map, START_DEVICE_ID, session>>

Detach(p) ==
    /\ pc = "poll"
    /\ ~IsNone(attached[p])
    /\ attached' = [attached EXCEPT ![p] = None]
    /\ UNCHANGED <<calls, flashed, dev_nvs, plugs, known_ports, new_ports, pc, port, esp_chip_id,
                   activation_key, server_available, license_file_path, lic_folder,
                   extracted_license, merged_csv, lic_added_csv, settings_bin,
                   address_binary_map, START_DEVICE_ID, session>>

\* ------------------------------------------------------- main: the monitor

files == <<lic_folder, extracted_license, merged_csv, lic_added_csv, settings_bin>>
env == <<attached, dev_nvs, plugs>>
locals == <<port, esp_chip_id, activation_key, server_available, license_file_path,
            address_binary_map>>

\* Mutant: ports that went away stay in known_ports.
Poll_NeverForgets ==
    /\ pc = "poll"
    /\ LET current_ports == {p \in Ports : ~IsNone(attached[p])}
       IN  /\ new_ports' = current_ports \ known_ports
           /\ known_ports' = known_ports \cup current_ports
    /\ pc' = "for"
    /\ UNCHANGED <<calls, flashed, env, files, locals, START_DEVICE_ID, session>>

\* lines 115-118: one poll of the serial ports.
Poll ==
    /\ pc = "poll"
    /\ LET current_ports == {p \in Ports : ~IsNone(attached[p])}
       IN  /\ new_ports' = current_ports \ known_ports
           /\ known_ports' = current_ports
    /\ pc' = "for"
    /\ UNCHANGED <<calls, flashed, env, files, locals, START_DEVICE_ID, session>>

\* line 120, loop exhausted: back to the while loop. The locals of the finished
\* iteration are dead (each is assigned again before it is read).
ForEnd ==
    /\ pc = "for"
    /\ new_ports = {}
    /\ pc' = "poll"
    /\ port' = ""
    /\ esp_chip_id' = None
    /\ activation_key' = None
    /\ server_available' = FALSE
    /\ license_file_path' = None
    /\ address_binary_map' = None
    /\ session' = NoSession
    /\ UNCHANGED <<calls, flashed, env, files, known_ports, new_ports, START_DEVICE_ID>>

\* lines 120-122: the next new port starts a device session.
ForNext ==
    /\ pc = "for"
    /\ \E p \in new_ports :
        /\ new_ports' = new_ports \ {p}
        /\ port' = p
        /\ session' = [NoSession EXCEPT !.port = p, !.state = "Running",
                                        !.index = START_DEVICE_ID]
    /\ esp_chip_id' = None
    /\ activation_key' = None
    /\ server_available' = FALSE
    /\ license_file_path' = None
    /\ address_binary_map' = None
    /\ pc' = "chip_id"
    /\ UNCHANGED <<calls, flashed, env, files, known_ports, START_DEVICE_ID>>

\* lines 123-127, 219-221: db_get_esp32_chip_id and the supported-chip gate.
GetChipId ==
    /\ pc = "chip_id"
    /\ \E connected \in (IF CanConnect THEN BOOLEAN ELSE {FALSE}) :
       \E r \in {None} \cup (IF connected THEN {Some(Device.chip_id)} ELSE {}) :
        /\ esp_chip_id' = r
        /\ LET ok == ~IsNone(r) /\ Val(r) \in DLSESupportedChips
           IN  /\ pc' = NextPc("chip_id", ok)
               /\ session' = [Logged("chip_id", ok) EXCEPT
                                 !.handles = HandlesAtReturn(@, connected)]
    /\ UNCHANGED <<calls, flashed, env, files, known_ports, new_ports, port, activation_key,
                   server_available, license_file_path, address_binary_map,
                   START_DEVICE_ID>>

\* lines 129-137: db_get_activation_key.
GetActivationKey ==
    /\ pc = "activation_key"
    /\ \E connected \in (IF CanConnect THEN BOOLEAN ELSE {FALSE}) :
       \E r \in {None} \cup
               (IF connected
                THEN {PackActivationKey(Device.mac, Device.chip_id, Device.chip_rev)}
                ELSE {}) :
        /\ activation_key' = r
        /\ pc' = NextPc("activation_key", ~IsNone(r))
        /\ session' = [Logged("activation_key", ~IsNone(r)) EXCEPT
                          !.had_cached =
                              ~IsNone(r) /\ CacheHoldsValid(lic_folder, Val(r)),
                          !.handles = HandlesAtReturn(@, connected)]
    /\ UNCHANGED <<calls, flashed, env, files, known_ports, new_ports, port, esp_chip_id,
                   server_available, license_file_path, address_binary_map,
                   START_DEVICE_ID>>

\* line 139: db_is_dlse_lic_server_available.
Probe ==
    /\ pc = "probe"
    /\ \E r \in BOOLEAN :
        /\ server_available' = r
        /\ pc' = NextPc("probe", r)
        /\ session' = Logged("probe", r)
    /\ UNCHANGED <<calls, flashed, env, files, known_ports, new_ports, port, esp_chip_id,
                   activation_key, license_file_path, address_binary_map,
                   START_DEVICE_ID>>

\* lines 142-145, 161-162: db_get_dlse_lic_from_local_storage.
LocalStorage ==
    /\ pc = "local_storage"
    /\ LET r == db_get_dlse_lic_from_local_storage(lic_folder, Val(activation_key))
       IN  /\ license_file_path' = r
           /\ pc' = NextPc("local_storage", ~IsNone(r))
           /\ session' = Logged("local_storage", ~IsNone(r))
    /\ UNCHANGED <<calls, flashed, env, files, known_ports, new_ports, port, esp_chip_id,
                   activation_key, server_available, address_binary_map,
                   START_DEVICE_ID>>

\* lines 146-160: db_get_dlse_lic_via_serial and the copy into the license folder.
ViaSerial ==
    /\ pc = "via_serial"
    /\ \/ \* esptool raised (port gone, no sync, read error): except -> None
          /\ license_file_path' = None
          /\ pc' = NextPc("via_serial", FALSE)
          /\ \E connected \in (IF CanConnect THEN BOOLEAN ELSE {FALSE}) :
                session' = [Logged("via_serial", FALSE) EXCEPT
                               !.handles = HandlesAtReturn(@, connected)]
          /\ UNCHANGED <<lic_folder, extracted_license>>
       \/ \* the settings partition was read
          /\ CanConnect
          /\ LET nvs == dev_nvs[Device]
                 r   == ExtractLicense(nvs)
                 tmp == IF nvs.license_ns /\ ~IsNone(nvs.db_lic_key)
                        THEN nvs.db_lic_key ELSE extracted_license
             IN  /\ extracted_license' = tmp
                 /\ IF IsNone(r)
                    THEN /\ license_file_path' = None
                         /\ UNCHANGED lic_folder
                    ELSE /\ lic_folder' = [lic_folder EXCEPT ![Val(activation_key)] = tmp]
                         /\ license_file_path' = activation_key
                 /\ pc' = NextPc("via_serial", ~IsNone(r))
                 /\ session' = [Logged("via_serial", ~IsNone(r)) EXCEPT
                                   !.recovered = IF nvs.license_ns THEN nvs.db_lic_key
                                                 ELSE None,
                                   !.handles = HandlesAtReturn(@, TRUE)]
    /\ UNCHANGED <<calls, flashed, env, merged_csv, lic_added_csv, settings_bin, known_ports, new_ports,
                   port, esp_chip_id, activation_key, server_available,
                   address_binary_map, START_DEVICE_ID>>

\* lines 163-172: db_api_request_license_file.
RequestLicense ==
    /\ pc = "request"
    /\ \/ \* exception or status code other than 200
          /\ license_file_path' = None
          /\ pc' = NextPc("request", FALSE)
          /\ session' = Logged("request", FALSE)
          /\ UNCHANGED lic_folder
       \/ \* 200: the body is saved under the default or the header's file name
          \E body \in ServerBodies(Val(activation_key)),
             filename \in {Val(activation_key), HeaderName} :
              /\ lic_folder' = [lic_folder EXCEPT ![filename] = Some(body)]
              /\ license_file_path' = Some(filename)
              /\ pc' = NextPc("request", TRUE)
              /\ session' = Logged("request", TRUE)
    /\ UNCHANGED <<calls, flashed, env, extracted_license, merged_csv, lic_added_csv, settings_bin,
                   known_ports, new_ports, port, esp_chip_id, activation_key,
                   server_available, address_binary_map, START_DEVICE_ID>>

\* lines 174-179: db_csv_update_parameters(merged_csv_path, START_DEVICE_ID).
UpdateParameters ==
    /\ pc = "update_parameters"
    /\ LET r == db_csv_update_parameters(merged_csv, START_DEVICE_ID, None, None, None)
       IN  /\ merged_csv' = r.csv
           /\ pc' = NextPc("update_parameters", r.ok)
           /\ session' = Logged("update_parameters", r.ok)
    /\ UNCHANGED <<calls, flashed, env, lic_folder, extracted_license, lic_added_csv, settings_bin,
                   known_ports, new_ports, locals, START_DEVICE_ID>>

\* Mutant: create_new_file is False, the license goes into the merged file.
EmbedLicense_InPlace ==
    /\ pc = "embed_license"
    /\ ~IsNone(license_file_path)
    /\ ~IsNone(lic_folder[Val(license_file_path)])
    /\ merged_csv' = db_embed_license_in_settings_csv(
                         merged_csv, Val(lic_folder[Val(license_file_path)]))
    /\ lic_added_csv' = Some(merged_csv')
    /\ pc' = NextPc("embed_license", TRUE)
    /\ session' = Logged("embed_license", TRUE)
    /\ UNCHANGED <<calls, flashed, env, lic_folder, extracted_license, settings_bin,
                   known_ports, new_ports, locals, START_DEVICE_ID>>

\* lines 183-189: db_embed_license_in_settings_csv(..., create_new_file=True).
EmbedLicense ==
    /\ pc = "embed_license"
    /\ \/ \* reading or writing a file raised, or the license file is gone: None
          /\ pc' = NextPc("embed_license", FALSE)
          /\ session' = Logged("embed_license", FALSE)
          /\ UNCHANGED lic_added_csv
       \/ /\ ~IsNone(license_file_path)
          /\ ~IsNone(lic_folder[Val(license_file_path)])
          /\ lic_added_csv' =
                 Some(db_embed_license_in_settings_csv(
                          merged_csv, Val(lic_folder[Val(license_file_path)])))
          /\ pc' = NextPc("embed_license", TRUE)
          /\ session' = Logged("embed_license", TRUE)
    /\ UNCHANGED <<calls, flashed, env, lic_folder, extracted_license, merged_csv, settings_bin,
                   known_ports, new_ports, locals, START_DEVICE_ID>>

\* lines 191-197: db_parameters_generate_binary.
GenerateBinary ==
    /\ pc = "generate_binary"
    /\ \/ \* the NVS tool is missing or could not be started: None
          /\ pc' = NextPc("generate_binary", FALSE)
          /\ session' = Logged("generate_binary", FALSE)
          /\ UNCHANGED settings_bin
       \/ \* the tool exits with an error: the handler calls logger.log with two
          \* arguments, the TypeError leaves the handler and ends main
          /\ pc' = "crashed"
          /\ session' = [Logged("generate_binary", FALSE) EXCEPT !.state = "Crashed"]
          /\ UNCHANGED settings_bin
       \/ /\ settings_bin' = lic_added_csv
          /\ pc' = NextPc("generate_binary", TRUE)
          /\ session' = Logged("generate_binary", TRUE)
    /\ UNCHANGED <<calls, flashed, env, lic_folder, extracted_license, merged_csv, lic_added_csv,
                   known_ports, new_ports, locals, START_DEVICE_ID>>

\* line 201: db_create_address_binary_map.
CreateAddressMap ==
    /\ pc = "address_map"
    /\ \E r \in {None, Some(db_create_address_binary_map(Val(esp_chip_id),
                                                          Val(settings_bin)))} :
        /\ address_binary_map' = r
        /\ pc' = NextPc("address_map", ~IsNone(r))
        /\ session' = Logged("address_map", ~IsNone(r))
    /\ UNCHANGED <<calls, flashed, env, files, known_ports, new_ports, port, esp_chip_id,
                   activation_key, server_available, license_file_path,
                   START_DEVICE_ID>>

\* line 202: db_flash_binaries; its result is dropped by main.
FlashBinaries ==
    /\ pc = "flash"
    /\ IF ~FlasherStarts(address_binary_map, settings_bin)
       THEN /\ session' = Logged("flash", FALSE)
            /\ UNCHANGED dev_nvs
       ELSE \/ \* esptool write-flash succeeds: the settings partition is written
               /\ Present
               /\ dev_nvs' = [dev_nvs EXCEPT ![Device] =
                                 [license_ns |-> TRUE,
                                  db_lic_key |-> Val(address_binary_map).settings.db_lic_key]]
               /\ session' = [Logged("flash", TRUE) EXCEPT !.wrote = TRUE]
            \/ \* esptool fails before touching the partition
               /\ session' = [Logged("flash", FALSE) EXCEPT !.wrote = TRUE]
               /\ UNCHANGED dev_nvs
            \/ \* esptool fails after erasing the partition
               /\ Present
               /\ dev_nvs' = [dev_nvs EXCEPT ![Device] = BlankNvs]
               /\ session' = [Logged("flash", FALSE) EXCEPT !.wrote = TRUE]
    /\ flashed' = Append(flashed, START_DEVICE_ID)
    /\ pc' = NextPc("flash", TRUE)
    /\ UNCHANGED <<calls, attached, plugs, files, known_ports, new_ports, locals, START_DEVICE_ID>>

\* Mutant: START_DEVICE_ID is not increased.
Finish_SameIndex ==
    /\ pc = "done"
    /\ pc' = NextPc("done", TRUE)
    /\ session' = Logged("done", TRUE)
    /\ UNCHANGED <<calls, flashed, env, files, known_ports, new_ports, locals,
                   START_DEVICE_ID>>

\* lines 204-218: log the assigned IP, "Finished processing", START_DEVICE_ID += 1.
Finish ==
    /\ pc = "done"
    /\ START_DEVICE_ID' = START_DEVICE_ID + 1
    /\ pc' = NextPc("done", TRUE)
    /\ session' = Logged("done", TRUE)
    /\ UNCHANGED <<calls, flashed, env, files, known_ports, new_ports, locals>>

\* ------------------------------------------------------------ specification

NoMergeOut == [called |-> FALSE, merged |-> None, missing |-> {}, obsolete |-> {}]
NoUpdateOut == [called |-> FALSE, ok |-> FALSE, wrote |-> FALSE, csv |-> None]
NoEmbedOut == [called |-> FALSE, path |-> None, file |-> None]
NoValidateOut ==
    [called |-> FALSE, raised |-> FALSE, is_valid |-> FALSE, license_info |-> None]
NoKeyOut == [called |-> FALSE, activation_key |-> None]

NoMerge ==
    /\ merge_call = [user |-> None, release |-> None]
    /\ merge_out = NoMergeOut
NoUpdate ==
    /\ update_call = [csv |-> None, index |-> 0, new_ip |-> None,
                      new_hostname |-> None, new_ssid_ap |-> None]
    /\ update_out = NoUpdateOut
NoEmbed ==
    /\ embed_call = [settings |-> None, license |-> None, create_new_file |-> FALSE]
    /\ embed_out = NoEmbedOut
NoValidate ==
    /\ validate_call =
          [exists |-> FALSE, license_data |-> <<>>, match_activation_key |-> None]
    /\ validate_out = NoValidateOut
NoKey ==
    /\ key_call = [connects |-> FALSE, mac |-> <<>>, chip_id |-> 0, chip_rev |-> 0]
    /\ key_out = NoKeyOut

NoMapOut == [called |-> FALSE, raised |-> FALSE, map |-> None]
NoMap ==
    /\ map_call = [exists |-> FALSE, parts |-> <<>>, chip_id |-> 0]
    /\ map_out = NoMapOut

\* DBLogger before its first use: no instance, no log file.
NoLogger ==
    logger = [instance |-> None, log_file |-> <<>>, loggers |-> <<>>, files |-> <<>>,
              calls |-> <<>>]

NoRowsOut == [ok |-> FALSE, rows |-> <<>>]
NoReindex ==
    reindex = [rows |-> <<>>, i |-> 0, j |-> 0, new_ip |-> None, new_hostname |-> None,
               step |-> 0, first |-> NoRowsOut, second |-> NoRowsOut]

NoTools == NoMap /\ NoLogger /\ NoReindex

\* No library function is called on its own.
NoCalls ==
    /\ merge_call = [user |-> None, release |-> None]
    /\ merge_out = NoMergeOut
    /\ update_call = [csv |-> None, index |-> 0, new_ip |-> None,
                      new_hostname |-> None, new_ssid_ap |-> None]
    /\ update_out = NoUpdateOut
    /\ NoEmbed
    /\ NoValidate
    /\ NoKey
    /\ NoTools

\* What a device may hold in its settings partition when it is first plugged in.
InitialNvs(d) ==
    {BlankNvs, NoKeyNvs, NvsWith(ShortBlob)}
    \cup {NvsWith(License(KeyOf(d), sg)) : sg \in BOOLEAN}
    \cup {NvsWith(License(KeyOf(DevB), TRUE))}

\* Merged settings files db_csv_merge_user_parameters_with_release may have left.
InitialMerged ==
    { Cfg(Some(Ip4(10)), Some(Name("Drone", Some(10))), Some(Name("SSIDDrone", None)), None),
      Cfg(Some(IpUnset), Some(Name("Drone", None)), None, None),
      Cfg(Some(Ip6), Some(Name("Drone", None)), None, None),
      Cfg(Some(IpUnset), None, None, None) }

Init ==
    /\ attached \in {[p \in Ports |-> None]} \cup
                    {[p \in Ports |-> IF p = "COM3" THEN Some(DevC) ELSE None]}
    /\ dev_nvs \in {[d \in Devices |-> IF d = DevA THEN n ELSE BlankNvs] :
                       n \in InitialNvs(DevA)}
    /\ plugs = 0
    /\ known_ports = {p \in Ports : ~IsNone(attached[p])}
    /\ new_ports = {}
    /\ pc = "poll"
    /\ port = ""
    /\ esp_chip_id = None
    /\ activation_key = None
    /\ server_available = FALSE
    /\ license_file_path = None
    /\ lic_folder = [n \in LicNames |-> None]
    /\ extracted_license = None
    /\ merged_csv \in InitialMerged
    /\ lic_added_csv = None
    /\ settings_bin = None
    /\ address_binary_map = None
    /\ START_DEVICE_ID = START_DEVICE_ID_DEFAULT
    /\ session = NoSession
    /\ flashed = <<>>
    /\ NoCalls

Next ==
    \/ \E p \in Ports, d \in Devices : Attach(p, d)
    \/ \E p \in Ports : Detach(p)
    \/ Poll
    \/ ForEnd
    \/ ForNext
    \/ GetChipId
    \/ GetActivationKey
    \/ Probe
    \/ LocalStorage
    \/ ViaSerial
    \/ RequestLicense
    \/ UpdateParameters
    \/ EmbedLicense
    \/ GenerateBinary
    \/ CreateAddressMap
    \/ FlashBinaries
    \/ Finish

Spec == Init /\ [][Next]_vars

\* The steps of main: time.sleep and every call main makes return, so main goes
\* on as long as it has a next statement. Plugging and unplugging is up to the
\* environment.
MainStep ==
    \/ Poll
    \/ ForEnd
    \/ ForNext
    \/ GetChipId
    \/ GetActivationKey
    \/ Probe
    \/ LocalStorage
    \/ ViaSerial
    \/ RequestLicense
    \/ UpdateParameters
    \/ EmbedLicense
    \/ GenerateBinary
    \/ CreateAddressMap
    \/ FlashBinaries
    \/ Finish

SpecLive == Spec /\ WF_vars(MainStep)

\* ------------------------------------------- specification: library calls

\* The variables of main in a program that only calls a library function.
MainOff ==
    /\ attached = [p \in Ports |-> None]
    /\ dev_nvs = [d \in Devices |-> BlankNvs]
    /\ plugs = 0
    /\ known_ports = {}
    /\ new_ports = {}
    /\ pc = "off"
    /\ port = ""
    /\ esp_chip_id = None
    /\ activation_key = None
    /\ server_available = FALSE
    /\ license_file_path = None
    /\ lic_folder = [n \in LicNames |-> None]
    /\ extracted_license = None
    /\ merged_csv = Cfg(None, None, None, None)
    /\ lic_added_csv = None
    /\ settings_bin = None
    /\ address_binary_map = None
    /\ START_DEVICE_ID = START_DEVICE_ID_DEFAULT
    /\ session = NoSession
    /\ flashed = <<>>

main == <<attached, dev_nvs, plugs, known_ports, new_ports, pc, port, esp_chip_id,
          activation_key, server_available, license_file_path, lic_folder,
          extracted_license, merged_csv, lic_added_csv, settings_bin,
          address_binary_map, START_DEVICE_ID, session, flashed>>

codec == <<embed_call, embed_out, validate_call, validate_out, key_call, key_out>>
tools == <<map_call, map_out, logger, reindex>>

SeqsUpTo(S, n) == UNION {[1..k -> S] : k \in 0..n}

\* Parameter files: a namespace row or a data row for each key. The release
\* ships defaults, the user's rows carry the user's values and columns.
MergeKeys == {"settings", "ip_sta", "ssid_ap"}
NamespaceRows == {Row(k, "namespace", "", "") : k \in MergeKeys}
ReleaseRows == NamespaceRows \cup {Row(k, "data", "string", "default") : k \in MergeKeys}
UserRows ==
    NamespaceRows \cup {Row(k, "data", "u8", v) : k \in MergeKeys, v \in {"user1", "user2"}}

InitMerge ==
    /\ MainOff
    /\ merge_call \in
          [user    : {None} \cup {Some(u) : u \in SeqsUpTo(UserRows, MaxUserRows)},
           release : {None} \cup {Some(r) : r \in SeqsUpTo(ReleaseRows, MaxReleaseRows)}]
    /\ merge_out = NoMergeOut
    /\ update_call = [csv |-> None, index |-> 0, new_ip |-> None,
                      new_hostname |-> None, new_ssid_ap |-> None]
    /\ update_out = NoUpdateOut
    /\ NoEmbed
    /\ NoValidate
    /\ NoKey
    /\ NoTools

\* One call of db_csv_merge_user_parameters_with_release.
MergeCall ==
    /\ ~merge_out.called
    /\ LET r == db_csv_merge_user_parameters_with_release(merge_call.user,
                                                          merge_call.release)
       IN  merge_out' = [called |-> TRUE, merged |-> r.merged,
                         missing |-> r.missing, obsolete |-> r.obsolete]
    /\ UNCHANGED <<main, merge_call, update_call, update_out, codec, tools>>

NextMerge == MergeCall

SpecMerge == InitMerge /\ [][NextMerge]_vars

\* Values of the three keys of the index assignment, and of its arguments.
IpValues == {Ip4(10), Ip4In("10.0.0", MaxOctet), Ip6, IpUnset, IpBad(0)}
NameValues == {Name("Drone", None), Name("Drone", Some(10)), Name("SSIDDrone", Some(34))}
Indexes == {0, 3} \cup (MaxOctet..MaxIndex)
OverrideIps == {Ip4In("10.0.0", 100), Ip6, IpBad(999)}
OverrideNames == {Name("CustomDrone", None), Name("Custom", Some(7))}
Opt(S) == {None} \cup {Some(x) : x \in S}

InitUpdate ==
    /\ MainOff
    /\ merge_call = [user |-> None, release |-> None]
    /\ merge_out = NoMergeOut
    /\ update_call \in
          [csv          : Opt({Cfg(ip, host, ssid, None) :
                                  ip \in Opt(IpValues), host \in Opt(NameValues),
                                  ssid \in Opt(NameValues)}),
           index        : Indexes,
           new_ip       : Opt(OverrideIps),
           new_hostname : Opt(OverrideNames),
           new_ssid_ap  : Opt(OverrideNames)]
    /\ update_out = NoUpdateOut
    /\ NoEmbed
    /\ NoValidate
    /\ NoKey
    /\ NoTools

\* One call of db_csv_update_parameters; a file that does not exist is None.
UpdateCall ==
    /\ ~update_out.called
    /\ update_out' =
          IF IsNone(update_call.csv)
          THEN [called |-> TRUE, ok |-> FALSE, wrote |-> FALSE, csv |-> None]
          ELSE LET r == db_csv_update_parameters(
                            Val(update_call.csv), update_call.index, update_call.new_ip,
                            update_call.new_hostname, update_call.new_ssid_ap)
               IN  [called |-> TRUE, ok |-> r.ok, wrote |-> r.wrote, csv |-> Some(r.csv)]
    /\ UNCHANGED <<main, merge_call, merge_out, update_call, codec, tools>>

NextUpdate == UpdateCall

SpecUpdate == InitUpdate /\ [][NextUpdate]_vars

\* Settings files that get a license embedded: comment lines, the column
\* header, and rows of the license namespace and of another one.
CommentLines == {CommentLine(" one"), CommentLine(" two")}
BodyRows ==
    {Row("license", "namespace", "", ""), Row("settings", "namespace", "", ""),
     Row("db_lic_key", "data", "base64", "T0xE"), Row("ip_sta", "data", "string", "")}
SettingsFiles ==
    {c \o <<HeaderRow>> \o b :
        c \in SeqsUpTo(CommentLines, MaxComments), b \in SeqsUpTo(BodyRows, MaxBodyRows)}

InitEmbed ==
    /\ MainOff
    /\ NoMerge
    /\ NoUpdate
    /\ embed_call \in
          [settings        : Opt(SettingsFiles),
           license         : Opt({"lic1", "lic2"}),
           create_new_file : BOOLEAN]
    /\ embed_out = NoEmbedOut
    /\ NoValidate
    /\ NoKey
    /\ NoTools

\* One call of db_embed_license_in_settings_csv: the path it returns ("new" for
\* <settings>_lic_added.csv, "same" for the settings file) and that file.
EmbedCall ==
    /\ ~embed_out.called
    /\ embed_out' =
          IF IsNone(embed_call.settings) \/ IsNone(embed_call.license)
          THEN [called |-> TRUE, path |-> None, file |-> None]
          ELSE [called |-> TRUE,
                path   |-> IF embed_call.create_new_file THEN Some("new") ELSE Some("same"),
                file   |-> Some(db_embed_license_in_file(
                                    Val(embed_call.settings),
                                    b64encode_text(Val(embed_call.license))))]
    /\ UNCHANGED <<main, merge_call, merge_out, update_call, update_out, embed_call,
                   validate_call, validate_out, key_call, key_out, tools>>

NextEmbed == EmbedCall

SpecEmbed == InitEmbed /\ [][NextEmbed]_vars

\* The activation-key fields of licenses: the packed hardware of the devices,
\* and a four byte field.
Macs == {<<160, 177, 194, 211, 228, m>> : m \in 1..MaxMacs}
KeyFields ==
    {Val(struct_pack_6sBH(mac, ESP32C3, 101)) : mac \in Macs} \cup {<<68, 76, 83, 69>>}
LicenseTypes == 0..MaxLicenseType
Timestamps == {0, 1893456000}

\* A license as the license server issues it.
IssueLicense(key_field, license_type, valid_till_timestamp) ==
    LET data == struct_pack_sIq(key_field, license_type, valid_till_timestamp)
    IN  data \o Sign(data)
IssuedLicenses ==
    {IssueLicense(k, t, v) : k \in KeyFields, t \in LicenseTypes, v \in Timestamps}

\* One bit of one byte flipped.
FlipBit(bytes, pos, bit) ==
    LET weight == 2 ^ bit
        b      == bytes[pos]
    IN  [bytes EXCEPT ![pos] = IF (b \div weight) % 2 = 1 THEN b - weight ELSE b + weight]

\* Licenses with one bit of the signature flipped: in its first, a middle and
\* its last byte.
CorruptedLicenses ==
    {FlipBit(r, Len(r) - SIGNATURE_LEN + off, bit) :
        r \in IssuedLicenses, off \in {1, 256, SIGNATURE_LEN}, bit \in {0, 7}}

\* Licenses with one bit of the signed data flipped: in the activation key.
ForgedLicenses == {FlipBit(r, 1, 0) : r \in IssuedLicenses}

\* Files cut short: nothing, one byte, up to the whole tail without a key.
TruncatedLicenses ==
    {SubSeq(r, 1, n) : r \in IssuedLicenses,
                       n \in {0, 1, SIGNATURE_LEN,
                              TYPE_LEN + TIMESTAMP_LEN + SIGNATURE_LEN - 1,
                              TYPE_LEN + TIMESTAMP_LEN + SIGNATURE_LEN}}
    \cup {SubSeq(r, Len(r) - (TYPE_LEN + TIMESTAMP_LEN + SIGNATURE_LEN) + 1, Len(r)) :
            r \in IssuedLicenses}

LicenseFiles ==
    IssuedLicenses \cup CorruptedLicenses \cup ForgedLicenses \cup TruncatedLicenses

InitLicense ==
    /\ MainOff
    /\ NoMerge
    /\ NoUpdate
    /\ NoEmbed
    /\ \/ validate_call \in
             [exists               : {TRUE},
              license_data         : LicenseFiles,
              match_activation_key : Opt({b64encode(k) : k \in KeyFields})]
       \/ validate_call \in
             [exists               : {FALSE},
              license_data         : {<<>>},
              match_activation_key : Opt({b64encode(k) : k \in KeyFields})]
    /\ validate_out = NoValidateOut
    /\ NoKey
    /\ NoTools

\* One call of db_dlse_validate_license. open() of a license file that does not
\* exist raises FileNotFoundError outside every try block.
ValidateCall ==
    /\ ~validate_out.called
    /\ validate_out' =
          IF ~validate_call.exists
          THEN [called |-> TRUE, raised |-> TRUE, is_valid |-> FALSE,
                license_info |-> None]
          ELSE LET r == db_dlse_validate_license_data(
                            validate_call.license_data,
                            validate_call.match_activation_key)
               IN  [called |-> TRUE, raised |-> FALSE, is_valid |-> r[1],
                    license_info |-> r[2]]
    /\ UNCHANGED <<main, merge_call, merge_out, update_call, update_out, embed_call,
                   embed_out, validate_call, key_call, key_out, tools>>

NextLicense == ValidateCall

SpecLicense == InitLicense /\ [][NextLicense]_vars

\* What esptool reads from a chip: the chip ids of the supported chips, the
\* largest values that fit one and two bytes, and the first that do not.
ChipIds == {ESP32C3, ESP32C6, ESP32C5, 255, 256}
ChipRevs == {0, 101, 65535, 65536}

InitKey ==
    /\ MainOff
    /\ NoMerge
    /\ NoUpdate
    /\ NoEmbed
    /\ NoValidate
    /\ key_call \in
          [connects : BOOLEAN, mac : Macs, chip_id : ChipIds, chip_rev : ChipRevs]
    /\ key_out = NoKeyOut
    /\ NoTools

\* One call of db_get_activation_key.
KeyCall ==
    /\ ~key_out.called
    /\ key_out' =
          [called         |-> TRUE,
           activation_key |-> db_get_activation_key(key_call.connects, key_call.mac,
                                                    key_call.chip_id, key_call.chip_rev)]
    /\ UNCHANGED <<main, merge_call, merge_out, update_call, update_out, embed_call,
                   embed_out, validate_call, validate_out, key_call, tools>>

NextKey == KeyCall

SpecKey == InitKey /\ [][NextKey]_vars

\* The parts a flash_args.txt is made of: addresses (0x9000 also with a leading
\* zero, 0x10000, and one that is no number), files and an option.
FlashArgsParts ==
    {HexPart(<<9, 0, 0, 0>>), HexPart(<<0, 9, 0, 0, 0>>), HexPart(<<1, 0, 0, 0, 0>>),
     HexPart(<<16>>), FilePart("bootloader", "bootloader.bin"),
     FilePart("", "db_esp32.bin"), OptionPart("--flash_mode")}

\* path_to_settings_partition_bin of db_parameters_generate_binary.
SettingsPartitionBin == [folder |-> "", name |-> [text |-> "settings.bin"]]

InitMap ==
    /\ MainOff
    /\ NoMerge
    /\ NoUpdate
    /\ NoEmbed
    /\ NoValidate
    /\ NoKey
    /\ map_call \in
          [exists  : BOOLEAN,
           parts   : SeqsUpTo(FlashArgsParts, MaxParts),
           chip_id : DLSESupportedChips \cup {9}]
    /\ map_out = NoMapOut
    /\ NoLogger
    /\ NoReindex

\* One call of db_create_address_binary_map.
MapCall ==
    /\ ~map_out.called
    /\ LET r == db_create_address_binary_map_of(map_call.exists, map_call.parts,
                                                map_call.chip_id, SettingsPartitionBin)
       IN  map_out' = [called |-> TRUE, raised |-> r.raised, map |-> r.map]
    /\ UNCHANGED <<main, merge_call, merge_out, update_call, update_out, codec,
                   map_call, logger, reindex>>

NextMap == MapCall

SpecMap == InitMap /\ [][NextMap]_vars

LogDirs == {"logs", "test_logs"}

InitLogger ==
    /\ MainOff
    /\ NoMerge
    /\ NoUpdate
    /\ NoEmbed
    /\ NoValidate
    /\ NoKey
    /\ NoMap
    /\ NoLogger
    /\ NoReindex

\* logger = DBLogger()
NewLogger ==
    /\ Len(logger.loggers) < MaxLoggers
    /\ logger' = WithLogger(logger)
    /\ UNCHANGED <<main, merge_call, merge_out, update_call, update_out, codec,
                   map_call, map_out, reindex>>

\* logger.create_log_file(dir) through one of the loggers.
CreateLogFile ==
    /\ Len(logger.files) < MaxLogFiles
    /\ \E i \in 1..Len(logger.loggers), dir \in LogDirs :
          logger' = create_log_file(logger, logger.loggers[i], dir)
    /\ UNCHANGED <<main, merge_call, merge_out, update_call, update_out, codec,
                   map_call, map_out, reindex>>

\* logger.log(message) through one of the loggers; the messages are numbered in
\* the order of the calls.
Log ==
    /\ Len(logger.calls) < MaxMessages
    /\ \E i \in 1..Len(logger.loggers), makedirs_ok \in BOOLEAN, write_ok \in BOOLEAN :
          logger' = log(logger, i, logger.loggers[i], Len(logger.calls) + 1,
                        makedirs_ok, write_ok)
    /\ UNCHANGED <<main, merge_call, merge_out, update_call, update_out, codec,
                   map_call, map_out, reindex>>

NextLogger == NewLogger \/ CreateLogFile \/ Log

SpecLogger == InitLogger /\ [][NextLogger]_vars

\* The rows of the settings files that get indexes assigned twice.
SettingsRows ==
    {Row("ip_sta", "data", "string", Ip4(10)),
     Row("ip_sta", "data", "string", IpUnset),
     Row("wifi_hostname", "data", "string", Name("Drone", Some(10))),
     Row("ssid_ap", "data", "string", Name("SSIDDrone", None)),
     Row("udp_local_port", "data", "u16", Name("", Some(14550))),
     Row("settings", "namespace", "", Name("", None))}
ReIndexes == {-1, 0, 3, MaxOctet + 1}

InitReindex ==
    /\ MainOff
    /\ NoMerge
    /\ NoUpdate
    /\ NoEmbed
    /\ NoValidate
    /\ NoKey
    /\ NoMap
    /\ NoLogger
    /\ reindex \in
          [rows         : SeqsUpTo(SettingsRows, MaxSettingsRows),
           i            : ReIndexes,
           j            : ReIndexes,
           new_ip       : Opt({Ip4In("10.0.0", 100), IpBad(999)}),
           new_hostname : Opt({Name("CustomDrone", None)}),
           step         : {0},
           first        : {NoRowsOut},
           second       : {NoRowsOut}]

\* The first call, with index i and the overrides.
FirstAssign ==
    /\ reindex.step = 0
    /\ reindex' =
          [reindex EXCEPT
              !.step  = 1,
              !.first = db_csv_update_rows(reindex.rows, reindex.i, reindex.new_ip,
                                           reindex.new_hostname, None)]
    /\ UNCHANGED <<main, merge_call, merge_out, update_call, update_out, codec,
                   map_call, map_out, logger>>

\* The second call, on the file the first call left, with index j and no
\* override.
SecondAssign ==
    /\ reindex.step = 1
    /\ reindex' =
          [reindex EXCEPT
              !.step   = 2,
              !.second = db_csv_update_rows(reindex.first.rows, reindex.j,
                                            None, None, None)]
    /\ UNCHANGED <<main, merge_call, merge_out, update_call, update_out, codec,
                   map_call, map_out, logger>>

NextReindex == FirstAssign \/ SecondAssign

SpecReindex == InitReindex /\ [][NextReindex]_vars

\* ------------------------------------------------------------------ claims

Steps == session.steps
Ran(step) == \E i \in 1..Len(Steps) : Steps[i].step = step
Ok(step) == \E i \in 1..Len(Steps) : Steps[i].step = step /\ Steps[i].ok
Failed(step) == \E i \in 1..Len(Steps) : Steps[i].step = step /\ ~Steps[i].ok
LastStep == Steps[Len(Steps)].step
Before(a, b) ==
    \A j \in 1..Len(Steps) : Steps[j].step = b =>
        \E i \in 1..(j - 1) : Steps[i].step = a

\* The license the session accepted, and the one in the rendered configuration.
AcceptedLicense == Val(lic_folder[Val(license_file_path)])
FlashedLicense == Val(Val(settings_bin).db_lic_key)
SignatureVerifies(blob) == blob.len_ok /\ blob.sig_ok

\* C1: a session whose device recovery returned no license is aborted at that
\* step, calls no later step, never calls the flasher and never starts a write
\* to the device.
C1_RecoveryFailureAborts ==
    Failed("via_serial") =>
        /\ session.state = "Aborted"
        /\ LastStep = "via_serial"
        /\ pc = "for"
        /\ ~Ran("flash")
        /\ ~session.wrote

C1_Witness ==
    /\ Failed("via_serial")
    /\ session.state = "Aborted"
    /\ dev_nvs[Device] = BlankNvs

\* C2: when device recovery reads a well-formed license whose signature does not
\* verify, recovery reports failure, the session is aborted at license
\* acquisition with no license accepted, and nothing is written to the device.
C2_BadSignatureRecoveryFails ==
    (/\ ~IsNone(session.recovered)
     /\ Val(session.recovered).len_ok
     /\ ~Val(session.recovered).sig_ok)
    => /\ Failed("via_serial")
       /\ session.state = "Aborted"
       /\ IsNone(license_file_path)
       /\ ~session.wrote

\* C3: the license a session accepts, and the license inside a configuration
\* whose flashing has started, has a signature that verifies.
C3_OnlyVerifiedLicenses ==
    /\ ~IsNone(license_file_path) => SignatureVerifies(AcceptedLicense)
    /\ session.wrote => SignatureVerifies(FlashedLicense)

\* C4: the license a session accepts carries the activation key derived from the
\* connected device in that session.
C4_LicenseBoundToDevice ==
    ~IsNone(license_file_path) =>
        /\ AcceptedLicense.len_ok
        /\ AcceptedLicense.activation_key = Val(activation_key)

\* C5 (as claimed): a session that finds a valid record for its key in the cache
\* makes no reachability probe, no issuance request and no device-recovery read.
C5_CachedMeansNoIO ==
    session.had_cached =>
        ~Ran("probe") /\ ~Ran("request") /\ ~Ran("via_serial")

\* C5 (amended): a session that finds a valid record for its key in the cache and
\* whose reachability probe fails takes the license from the cache, and makes no
\* issuance request and no device-recovery read. The probe comes before the
\* cache lookup, and when it succeeds the license is requested from the server
\* and the cache is not looked at.
C5_CachedAndOfflineUsesCache ==
    /\ (session.had_cached /\ Failed("probe")) =>
          /\ ~Ran("request")
          /\ ~Ran("via_serial")
          /\ Ran("local_storage") =>
                /\ Ok("local_storage")
                /\ license_file_path = activation_key
                /\ IsValidLicenseFor(AcceptedLicense, Val(activation_key))
          /\ Ran("update_parameters") => Ok("local_storage")
    /\ Before("probe", "local_storage")
    /\ (session.had_cached /\ Ok("probe")) =>
          /\ ~Ran("local_storage")
          /\ ~Ran("via_serial")
          /\ Ran("update_parameters") => Ok("request")

C5_Witness ==
    /\ session.had_cached
    /\ Failed("probe")
    /\ Ok("local_storage")
    /\ Ok("flash")

\* C6: device recovery runs only after the probe and the cache lookup of the same
\* session failed, and the issuance request only after the probe succeeded.
C6_RecoveryOnlyOfflineAndUncached ==
    /\ Ran("via_serial") =>
          /\ Failed("probe") /\ Before("probe", "via_serial")
          /\ Failed("local_storage") /\ Before("local_storage", "via_serial")
          /\ ~session.had_cached
    /\ Ran("request") => Ok("probe") /\ Before("probe", "request")

C6_Witness ==
    /\ Ok("via_serial")
    /\ Failed("local_storage")
    /\ Failed("probe")

\* A session that ended for lack of a license.
AbortedForLicense ==
    /\ session.state = "Aborted"
    /\ LastStep \in {"local_storage", "via_serial", "request"}

\* C7 (as claimed): a session ends for lack of a license only after the cache
\* lookup and device recovery failed too, also when the issuance request failed.
C7_AbortOnlyAfterAllStrategies ==
    AbortedForLicense =>
        /\ Failed("local_storage")
        /\ Failed("via_serial")
        /\ Failed("request") \/ Failed("probe")

\* C7 (amended): a session ends for lack of a license either with the server
\* unreachable, after the cache lookup and device recovery both failed, or with
\* the server reachable, as soon as the issuance request failed, without a
\* cache lookup or device recovery.
C7_AbortAfterBranchExhausted ==
    AbortedForLicense =>
        \/ /\ Failed("probe")
           /\ Failed("local_storage")
           /\ Failed("via_serial")
           /\ ~Ran("request")
        \/ /\ Ok("probe")
           /\ Failed("request")
           /\ ~Ran("local_storage")
           /\ ~Ran("via_serial")

C7_Witness ==
    /\ AbortedForLicense
    /\ Failed("request")
    /\ session.had_cached

\* C8: the device index is the session's start index, plus one exactly when the
\* session reached Done with a successful flash.
C8_IndexAdvancesOnlyOnSuccess ==
    session.state # "None" =>
        START_DEVICE_ID =
            session.index + (IF Ran("done") /\ Ok("flash") THEN 1 ELSE 0)

\* Position of a step in the order of the pipeline.
Rank(step) ==
    CASE step = "chip_id"           -> 1
      [] step = "activation_key"    -> 2
      [] step = "probe"             -> 3
      [] step = "local_storage"     -> 4
      [] step = "request"           -> 4
      [] step = "via_serial"        -> 5
      [] step = "update_parameters" -> 6
      [] step = "embed_license"     -> 7
      [] step = "generate_binary"   -> 8
      [] step = "address_map"       -> 9
      [] step = "flash"             -> 10
      [] OTHER                      -> 11

LicenseAcquired == Ok("local_storage") \/ Ok("via_serial") \/ Ok("request")

\* C9: the steps of a session run in the order chip identification, key
\* derivation, license acquisition, index assignment, embedding, rendering,
\* flashing, Done; none is revisited or skipped, and the flasher runs only after
\* every earlier step succeeded.
C9_StepsInOrder ==
    /\ \A i, j \in 1..Len(Steps) : i < j => Rank(Steps[i].step) < Rank(Steps[j].step)
    /\ Len(Steps) > 0 => Steps[1].step = "chip_id"
    /\ Ran("activation_key") => Ok("chip_id")
    /\ Ran("probe") => Ok("activation_key")
    /\ (Ran("local_storage") \/ Ran("request") \/ Ran("via_serial")) => Ran("probe")
    /\ Ran("update_parameters") => LicenseAcquired
    /\ Ran("embed_license") => Ok("update_parameters")
    /\ Ran("generate_binary") => Ok("embed_license")
    /\ Ran("address_map") => Ok("generate_binary")
    /\ Ran("flash") => Ran("address_map")
    /\ Ran("done") => Ran("flash")
    /\ session.wrote => Ok("generate_binary") /\ Ok("address_map")

C9_Witness ==
    /\ session.state = "Done"
    /\ Ok("flash")
    /\ session.wrote

\* C10: no step runs twice, and a failed step is the last step of its session,
\* which is then aborted (or ended together with main). A failed probe or cache
\* lookup only routes the license acquisition, and a missing address map is
\* counted as the failure of the flasher that is given it.
C10_FailedStepEndsSession ==
    /\ \A i, j \in 1..Len(Steps) : i # j => Steps[i].step # Steps[j].step
    /\ \A i \in 1..Len(Steps) :
          (/\ ~Steps[i].ok
           /\ Steps[i].step \notin {"probe", "local_storage", "address_map"}) =>
              /\ i = Len(Steps)
              /\ session.state \in {"Aborted", "Crashed"}

\* C11: a session whose chip id is unreadable or not one of the supported chips
\* is aborted at the chip gate: it runs no other step, derives no activation
\* key, gets no license, starts no write to the device, and the step that
\* rejects the chip changes no file, no device and not the device index.
C11_UnsupportedChipAborts ==
    /\ [](Ran("chip_id") =>
            (Failed("chip_id") <=>
                (IsNone(esp_chip_id) \/ Val(esp_chip_id) \notin DLSESupportedChips)))
    /\ [](Failed("chip_id") =>
            /\ session.state = "Aborted"
            /\ Len(Steps) = 1
            /\ pc = "for"
            /\ IsNone(activation_key)
            /\ IsNone(license_file_path)
            /\ ~session.wrote)
    /\ [][(pc = "chip_id" /\ pc' = "for") =>
             UNCHANGED <<files, dev_nvs, START_DEVICE_ID>>]_vars

C11_Witness ==
    /\ Failed("chip_id")
    /\ esp_chip_id = Some(DevC.chip_id)
    /\ session.state = "Aborted"

\* C12: main outlives every failed step of a device session: it never stops, it
\* goes on with the ports that are left and polls again.
C12_MonitorSurvivesFailure ==
    (\E i \in 1..Len(Steps) : ~Steps[i].ok) =>
        /\ pc # "crashed"
        /\ session.state # "Crashed"

\* C13: a session whose address map could not be built or whose flasher failed
\* is never finished as Done.
C13_FlashFailureNeverDone ==
    (Failed("address_map") \/ Failed("flash")) =>
        /\ ~Ran("done")
        /\ session.state # "Done"

\* The ports a poll enumerates.
Enumerated == {p \in Ports : ~IsNone(attached[p])}

\* C14: a poll makes exactly the enumerated ports that the previous poll (or the
\* start-up enumeration) did not show the new ports, and the enumeration the
\* known set; sessions start for the new ports only, one per new port, and the
\* next poll comes only after every new port had its session.
C14_SessionsForNewPortsOnly ==
    /\ [](/\ new_ports \subseteq known_ports
          /\ pc = "poll" => new_ports = {}
          /\ session.state # "None" => session.port \in known_ports \ new_ports)
    /\ [][/\ (pc = "poll" /\ pc' # "poll") =>
                /\ new_ports' = Enumerated \ known_ports
                /\ known_ports' = Enumerated
          /\ pc \notin {"poll", "off"} =>
                /\ known_ports' = known_ports
                /\ new_ports' \subseteq new_ports
          /\ (pc = "for" /\ pc' = "chip_id") =>
                /\ session'.port \in new_ports
                /\ new_ports' = new_ports \ {session'.port}
                /\ session'.steps = <<>>
          /\ pc' = "chip_id" => pc = "for"
          /\ (pc = "for" /\ pc' = "poll") => new_ports = {}]_vars

\* A port whose device was flashed in an earlier session starts a new session.
C14_Witness ==
    /\ dev_nvs[DevB] # BlankNvs
    /\ session.port = "COM4"
    /\ session.state = "Running"
    /\ Steps = <<>>
    /\ session.index = START_DEVICE_ID_DEFAULT + 1

\* The merged file a successful call wrote, and the two files it was given.
Merged == Val(merge_out.merged)
Release == Val(merge_call.release)
User == Val(merge_call.user)
MergeSucceeded == merge_out.called /\ ~IsNone(merge_out.merged)
HasDataRow(rows, k) ==
    \E i \in 1..Len(rows) : rows[i].key = k /\ rows[i].type # "namespace"

\* C15: the data keys of the merged file are exactly the data keys of the
\* release file.
C15_MergedKeysAreReleaseKeys ==
    MergeSucceeded =>
        \A k \in MergeKeys : HasDataRow(Merged, k) <=> HasDataRow(Release, k)

C15_Witness ==
    /\ MergeSucceeded
    /\ \E k \in MergeKeys : HasDataRow(User, k) /\ ~HasDataRow(Release, k)
    /\ \E k \in MergeKeys : HasDataRow(Merged, k)

\* C16: the merge fails only when one of the two files does not exist; the keys
\* it reports as missing are the data keys of the release that are no data keys
\* of the user, the keys it reports as obsolete are the data keys of the user
\* that are no data keys of the release.
C16_MissingAndObsolete ==
    merge_out.called =>
        /\ IsNone(merge_out.merged) <=>
              (IsNone(merge_call.user) \/ IsNone(merge_call.release))
        /\ MergeSucceeded =>
              /\ merge_out.missing =
                    {k \in MergeKeys : HasDataRow(Release, k) /\ ~HasDataRow(User, k)}
              /\ merge_out.obsolete =
                    {k \in MergeKeys : HasDataRow(User, k) /\ ~HasDataRow(Release, k)}

C16_Witness ==
    /\ MergeSucceeded
    /\ merge_out.missing # {}
    /\ merge_out.obsolete # {}
    /\ merge_out.missing # merge_out.obsolete

\* The rows of a file in another order.
Permuted(rows) ==
    {[i \in 1..Len(rows) |-> rows[f[i]]] :
        f \in {g \in [1..Len(rows) -> 1..Len(rows)] :
                  \A a, b \in 1..Len(rows) : a # b => g[a] # g[b]}}

\* The merged file has the rows of the release in the release's order, with
\* the release's key, type and encoding.
MergedKeepsReleaseRows ==
    /\ Len(Merged) = Len(Release)
    /\ \A i \in 1..Len(Release) :
          /\ Merged[i].key = Release[i].key
          /\ Merged[i].type = Release[i].type
          /\ Merged[i].encoding = Release[i].encoding

\* A data row has a value of the user if the user has a data row of that key,
\* and the release's value otherwise.
MergedDataValues ==
    \A i \in 1..Len(Release) :
        Release[i].type # "namespace" =>
            IF HasDataRow(User, Release[i].key)
            THEN \E j \in 1..Len(User) :
                    /\ User[j].key = Release[i].key
                    /\ User[j].type # "namespace"
                    /\ Merged[i].value = User[j].value
            ELSE Merged[i].value = Release[i].value

\* A namespace row is the release's row.
MergedNamespaceRows ==
    \A i \in 1..Len(Release) :
        Release[i].type = "namespace" => Merged[i] = Release[i]

\* The order of the rows of the user file does not matter.
MergedWhateverUserOrder ==
    \A u \in Permuted(User) :
        db_csv_merge_user_parameters_with_release(Some(u), merge_call.release).merged
            = merge_out.merged

\* C17: the merged file is the release's rows in the release's order, a data
\* row with the user's value where the user has that data key and the release's
\* value otherwise, namespace rows and the other columns as in the release,
\* whatever the order of the rows of the user file.
C17_MergedIsReleaseWithUserValues ==
    MergeSucceeded =>
        /\ MergedKeepsReleaseRows
        /\ MergedDataValues
        /\ MergedNamespaceRows
        /\ MergedWhateverUserOrder

\* One call of the index assignment on a file that exists: the rows before and
\* after it, and its arguments.
In == Val(update_call.csv)
Out == Val(update_out.csv)
Updated == update_out.called /\ ~IsNone(update_call.csv)
NoIpOverride == IsNone(update_call.new_ip)
HasIp == ~IsNone(In.ip_sta)
CurrentIp == Val(In.ip_sta)
ParsesAsIp(ip) == ip.kind \in {"v4", "v6"}
\* At least one of the three keys can be updated.
Updatable ==
    \/ HasIp /\ (~NoIpOverride \/ ParsesAsIp(CurrentIp))
    \/ ~IsNone(In.wifi_hostname)
    \/ ~IsNone(In.ssid_ap)
\* The address whose last part is replaced by the index is an address again.
IndexFitsAddress == CurrentIp.kind = "v4" /\ update_call.index \in 0..MaxOctet

\* C18 (as claimed): ip_sta becomes a valid override verbatim; without an
\* override a current value that parses as an address gets the index as its last
\* octet, whatever the index and the address; without an override an unset or
\* unparseable value stays, and the call succeeds if and only if the hostname or
\* the SSID was updated.
C18_IpIndexAssignment ==
    (Updated /\ HasIp) =>
        /\ (~NoIpOverride /\ ParsesAsIp(Val(update_call.new_ip))) =>
              update_out.ok /\ Out.ip_sta = update_call.new_ip
        /\ (NoIpOverride /\ ParsesAsIp(CurrentIp)) =>
              /\ update_out.ok
              /\ Out.ip_sta = Some([CurrentIp EXCEPT !.last = update_call.index])
        /\ (NoIpOverride /\ ~ParsesAsIp(CurrentIp)) =>
              /\ Out.ip_sta = In.ip_sta
              /\ update_out.ok <=> (~IsNone(In.wifi_hostname) \/ ~IsNone(In.ssid_ap))

\* C18 (amended): as claimed, but without an override a current value that
\* parses as an address gets the index as its last octet only if that gives an
\* address again (a dotted address and an index of 0..255); if not, the call
\* fails and leaves the file as it was.
C18_IpIndexAssignmentIfValid ==
    (Updated /\ HasIp) =>
        /\ (~NoIpOverride /\ ParsesAsIp(Val(update_call.new_ip))) =>
              update_out.ok /\ Out.ip_sta = update_call.new_ip
        /\ (NoIpOverride /\ ParsesAsIp(CurrentIp) /\ IndexFitsAddress) =>
              /\ update_out.ok
              /\ Out.ip_sta = Some(Ip4In(CurrentIp.net, update_call.index))
        /\ (NoIpOverride /\ ParsesAsIp(CurrentIp) /\ ~IndexFitsAddress) =>
              ~update_out.ok /\ Out = In
        /\ (NoIpOverride /\ ~ParsesAsIp(CurrentIp)) =>
              /\ Out.ip_sta = In.ip_sta
              /\ update_out.ok <=> (~IsNone(In.wifi_hostname) \/ ~IsNone(In.ssid_ap))

C18_Witness ==
    /\ Updated
    /\ NoIpOverride
    /\ In.ip_sta = Some(Ip4(10))
    /\ update_call.index = MaxOctet + 1
    /\ ~update_out.ok
    /\ Out.ip_sta = Some(Ip4(10))

\* What the index assignment makes of a name without an override.
Indexed(name) == [base |-> name.base, num |-> Some(update_call.index)]

\* C19: a call that succeeds sets wifi_hostname and ssid_ap to their override,
\* and without one to the current value without its trailing digits, followed
\* by the index; a key the file does not have is not added.
C19_NameIndexAssignment ==
    (Updated /\ update_out.ok) =>
        /\ Out.wifi_hostname =
              IF IsNone(In.wifi_hostname) THEN None
              ELSE IF ~IsNone(update_call.new_hostname) THEN update_call.new_hostname
              ELSE Some(Indexed(Val(In.wifi_hostname)))
        /\ Out.ssid_ap =
              IF IsNone(In.ssid_ap) THEN None
              ELSE IF ~IsNone(update_call.new_ssid_ap) THEN update_call.new_ssid_ap
              ELSE Some(Indexed(Val(In.ssid_ap)))

C19_Witness ==
    /\ Updated
    /\ update_out.ok
    /\ update_call.index = 3
    /\ IsNone(update_call.new_hostname)
    /\ In.wifi_hostname = Some(Name("Drone", Some(10)))
    /\ Out.wifi_hostname = Some(Name("Drone", Some(3)))
    /\ In.ssid_ap = Some(Name("SSIDDrone", Some(34)))
    /\ Out.ssid_ap = Some(Name("Custom", Some(7)))

C21_BadOverrideChangesNothing ==
    (Updated /\ ~NoIpOverride /\ ~ParsesAsIp(Val(update_call.new_ip))) =>
        /\ ~update_out.ok
        /\ ~update_out.wrote
        /\ Out = In

\* C22: a call that can update none of the three keys returns failure and does
\* not write the file, and a call returns success only if it updated one of
\* the three keys; it writes the file exactly when it returns success.
C22_NothingUpdatedIsAnError ==
    Updated =>
        /\ ~Updatable => (~update_out.ok /\ ~update_out.wrote /\ Out = In)
        /\ update_out.ok => Updatable
        /\ update_out.ok =>
              \/ HasIp /\ Out.ip_sta # In.ip_sta
              \/ HasIp /\ ~NoIpOverride /\ Out.ip_sta = update_call.new_ip
              \/ HasIp /\ NoIpOverride /\ Out.ip_sta = Some(Ip4In(CurrentIp.net, update_call.index))
              \/ ~IsNone(In.wifi_hostname)
              \/ ~IsNone(In.ssid_ap)
        /\ update_out.wrote <=> update_out.ok

C22_Witness ==
    /\ Updated
    /\ In.ip_sta = Some(IpUnset)
    /\ NoIpOverride
    /\ IsNone(In.wifi_hostname)
    /\ IsNone(In.ssid_ap)
    /\ ~update_out.ok
    /\ ~update_out.wrote

\* One call of the license embedding that wrote a file: the lines it read and
\* the lines it wrote.
Embedded == embed_out.called /\ ~IsNone(embed_out.file)
EmbedIn == Val(embed_call.settings)
EmbedOut == Val(embed_out.file)
LicenseB64 == b64encode_text(Val(embed_call.license))

\* The comment lines a file starts with.
RECURSIVE LeadingComments(_)
LeadingComments(lines) ==
    IF lines = <<>> \/ ~IsComment(Head(lines))
    THEN <<>>
    ELSE <<Head(lines)>> \o LeadingComments(Tail(lines))

\* C23: the file written by the license embedding starts with the comment lines
\* the settings file starts with, as they were and in their order, and the
\* column header follows them.
C23_LeadingCommentsKept ==
    Embedded =>
        /\ LeadingComments(EmbedOut) = LeadingComments(EmbedIn)
        /\ EmbedOut[Len(LeadingComments(EmbedIn)) + 1] = HeaderRow

\* The rows with key db_lic_key, and the namespace a row of a file lies in.
LicKeyRows(lines) ==
    {i \in 1..Len(lines) : IsRowLine(lines[i]) /\ lines[i].key = "db_lic_key"}
NamespaceOf(lines, i) ==
    LET ns == {j \in 1..(i - 1) : IsRowLine(lines[j]) /\ lines[j].type = "namespace"}
    IN  IF ns = {} THEN ""
        ELSE lines[CHOOSE j \in ns : \A k \in ns : k <= j].key

\* A settings file as the pipeline makes it: no comment lines, every data row
\* below the header in a namespace, at most one row db_lic_key, in the
\* namespace license.
WellFormedSettings(lines) ==
    /\ \A i \in 1..Len(lines) : IsRowLine(lines[i])
    /\ \A i \in 2..Len(lines) :
          lines[i].type # "namespace" => NamespaceOf(lines, i) # ""
    /\ Cardinality(LicKeyRows(lines)) <= 1
    /\ \A i \in LicKeyRows(lines) : NamespaceOf(lines, i) = "license"

\* C24: the file written by the license embedding for a well-formed settings
\* file has exactly one row with key db_lic_key, its value is the base64 of the
\* license file, and it lies in the namespace license.
C24_OneLicenseKeyInLicenseNamespace ==
    (Embedded /\ WellFormedSettings(EmbedIn)) =>
        /\ Cardinality(LicKeyRows(EmbedOut)) = 1
        /\ \A i \in LicKeyRows(EmbedOut) :
              /\ EmbedOut[i] = Row("db_lic_key", "data", "base64", LicenseB64)
              /\ NamespaceOf(EmbedOut, i) = "license"

\* C25: embedding the same license in place into the file a first embedding
\* wrote gives that file again, and embedding it again into the same settings
\* file gives the same file.
C25_EmbeddingIsIdempotent ==
    Embedded =>
        /\ db_embed_license_in_file(EmbedOut, LicenseB64) = EmbedOut
        /\ db_embed_license_in_file(EmbedIn, LicenseB64) = EmbedOut

C25_Witness ==
    /\ Embedded
    /\ LeadingComments(EmbedIn) = <<>>
    /\ LicKeyRows(EmbedIn) # {}
    /\ \A i \in LicKeyRows(EmbedIn) : EmbedIn[i].value # LicenseB64
    /\ \E i \in LicKeyRows(EmbedOut) : EmbedOut[i].value = LicenseB64
    /\ Len(EmbedOut) = Len(EmbedIn)

\* A call of the license validation on an existing file has returned.
Validated == validate_out.called /\ validate_call.exists
LicenseData == validate_call.license_data
ExpectedKey == validate_call.match_activation_key
LicenseInfo == Val(validate_out.license_info)

\* The pieces of the license file when its tail is `tail` bytes long: what lies
\* before the tail, then 4 bytes, 8 bytes and 512 bytes.
KeyPart(tail) == SubSeq(LicenseData, 1, Len(LicenseData) - tail)
TypePart(tail) ==
    SubSeq(LicenseData, Len(LicenseData) - tail + 1, Len(LicenseData) - tail + 4)
TimestampPart(tail) ==
    SubSeq(LicenseData, Len(LicenseData) - tail + 5, Len(LicenseData) - tail + 12)
SignaturePart(tail) ==
    SubSeq(LicenseData, Len(LicenseData) - tail + 13, Len(LicenseData) - tail + 524)
SignedPart(tail) == KeyPart(tail) \o TypePart(tail) \o TimestampPart(tail)

\* The decoding splits the file by a tail of `tail` bytes: the signature is
\* verified over key, type and timestamp in that order, and the decoded fields
\* are those pieces.
SplitsByTail(tail) ==
    (Validated /\ Len(LicenseData) > tail) =>
        /\ ~IsNone(validate_out.license_info)
              <=> SignaturePart(tail) = Sign(SignedPart(tail))
        /\ ~IsNone(validate_out.license_info) =>
              /\ LicenseInfo.activation_key_b64 = b64encode(KeyPart(tail))
              /\ LicenseInfo.license_type = FromLE(TypePart(tail))
              /\ LicenseInfo.valid_till = FromLE(TimestampPart(tail))
              /\ LicenseInfo.data_to_verify = b64encode(SignedPart(tail))

\* C26 (as claimed): license decoding splits a record of length L by a tail of
\* 528 bytes: the activation key is the first L - 528 bytes, and the verified
\* payload is activation key, type and timestamp in that order.
C26_SplitsByTailOf528 == SplitsByTail(528)

\* C26 (amended): license decoding splits a record of length L by a tail of 524
\* bytes (4 byte type, 8 byte timestamp, 512 byte signature): the activation key
\* is the first L - 524 bytes, and the verified payload is activation key, type
\* and timestamp in that order.
C26_SplitsByTailOf524 == SplitsByTail(TYPE_LEN + TIMESTAMP_LEN + SIGNATURE_LEN)

\* A license of 528 bytes, a four byte key before the tail of 524, was decoded
\* and found valid.
C26_Witness ==
    /\ Validated
    /\ validate_out.is_valid
    /\ Len(LicenseData) = 528
    /\ LicenseInfo.activation_key_b64 = b64encode(<<68, 76, 83, 69>>)
    /\ LicenseInfo.valid_till = 1893456000

\* C27: for a well-formed license record whose signature does not verify - any
\* record with one bit of the signature flipped among them - the validation
\* returns (False, None) and does not raise; it returns valid only if the
\* signature verifies over the reconstructed payload.
C27_BadSignatureIsInvalidNotAnError ==
    (Validated /\ Len(LicenseData) > 524) =>
        /\ ~validate_out.raised
        /\ SignaturePart(524) # Sign(SignedPart(524)) =>
              ~validate_out.is_valid /\ IsNone(validate_out.license_info)
        /\ LicenseData \in CorruptedLicenses =>
              ~validate_out.is_valid /\ IsNone(validate_out.license_info)
        /\ validate_out.is_valid => SignaturePart(524) = Sign(SignedPart(524))

\* The validation of a license with one bit of its signature's last byte flipped
\* has returned invalid.
C27_Witness ==
    /\ Validated
    /\ LicenseData \in CorruptedLicenses
    /\ \E r \in IssuedLicenses : LicenseData = FlipBit(r, Len(r), 7)
    /\ ~validate_out.raised
    /\ ~validate_out.is_valid

\* C28: for an issued license with embedded activation key K1, the validation
\* with an expected key K2 # K1 returns invalid although the signature verifies
\* for K1; without an expected key, and with K1 expected, it returns valid.
C28_OtherKeyIsInvalid ==
    (Validated /\ LicenseData \in IssuedLicenses) =>
        LET K1 == b64encode(KeyPart(524))
        IN  /\ SignaturePart(524) = Sign(SignedPart(524))
            /\ IsNone(ExpectedKey) => validate_out.is_valid
            /\ ExpectedKey = Some(K1) => validate_out.is_valid
            /\ (~IsNone(ExpectedKey) /\ Val(ExpectedKey) # K1) =>
                  /\ ~validate_out.is_valid
                  /\ ~IsNone(validate_out.license_info)
                  /\ LicenseInfo.activation_key_b64 = K1

\* A license issued to one device was validated against the activation key of
\* another device and found invalid.
C28_Witness ==
    /\ Validated
    /\ LicenseData \in IssuedLicenses
    /\ Len(LicenseData) = 533
    /\ ~IsNone(ExpectedKey)
    /\ Len(Val(ExpectedKey)) = 12
    /\ Val(ExpectedKey) # b64encode(KeyPart(524))
    /\ ~validate_out.is_valid

\* C29: a session that is offered only a license too short to hold the tail -
\* the one in the device's settings partition - does not accept it: the device
\* recovery fails, no license is accepted and nothing is flashed.
C29_ShortRecordIsNoLicense ==
    (~IsNone(session.recovered) /\ ~Val(session.recovered).len_ok) =>
        /\ ~Ok("via_serial")
        /\ IsNone(license_file_path)
        /\ ~Ok("embed_license")
        /\ ~session.wrote

\* base64.b64decode of text that b64encode made.
RECURSIVE b64decode(_)
b64decode(text) ==
    IF Len(text) = 0
    THEN <<>>
    ELSE LET a == text[1]
             b == text[2]
             c == text[3]
             d == text[4]
         IN  IF c = 64
             THEN <<a * 4 + b \div 16>>
             ELSE IF d = 64
             THEN <<a * 4 + b \div 16, (b % 16) * 16 + c \div 4>>
             ELSE <<a * 4 + b \div 16, (b % 16) * 16 + c \div 4, (c % 4) * 64 + d>>
                  \o b64decode(SubSeq(text, 5, Len(text)))

KeyDerived == key_out.called /\ key_call.connects
FitsRecord(chip_id, chip_rev) == chip_id <= 255 /\ chip_rev <= 65535

\* C30: the activation key of a connected device is the base64 of the nine byte
\* record MAC | chip id | chip revision (little-endian); it is the key a second
\* derivation for the same hardware gives; hardware that differs in one of the
\* three fields gets another key; a chip id above 255 or a revision above 65535
\* gives no key.
C30_KeyIsBase64OfHardwareRecord ==
    KeyDerived =>
        /\ FitsRecord(key_call.chip_id, key_call.chip_rev) =>
              /\ ~IsNone(key_out.activation_key)
              /\ Len(Val(key_out.activation_key)) = 12
              /\ b64decode(Val(key_out.activation_key)) =
                    key_call.mac \o <<key_call.chip_id, key_call.chip_rev % 256,
                                      key_call.chip_rev \div 256>>
              /\ key_out.activation_key =
                    db_get_activation_key(TRUE, key_call.mac, key_call.chip_id,
                                          key_call.chip_rev)
              /\ \A mac \in Macs, chip_id \in ChipIds, chip_rev \in ChipRevs :
                    <<mac, chip_id, chip_rev>> #
                        <<key_call.mac, key_call.chip_id, key_call.chip_rev>>
                    => db_get_activation_key(TRUE, mac, chip_id, chip_rev) #
                          key_out.activation_key
        /\ ~FitsRecord(key_call.chip_id, key_call.chip_rev) =>
              IsNone(key_out.activation_key)

\* The key of a device whose revision needs both bytes was derived.
C30_Witness ==
    /\ KeyDerived
    /\ key_call.chip_id = ESP32C6
    /\ key_call.chip_rev = 65535
    /\ ~IsNone(key_out.activation_key)
    /\ b64decode(Val(key_out.activation_key))[9] = 255

MapMade == map_out.called /\ ~IsNone(map_out.map)
Parts == map_call.parts
TheMap == Val(map_out.map)

\* The parts that are read as addresses: a part starting with 0x that is not
\* taken as the file of the address before it (an even number of 0x parts
\* stands right before it).
HexRunBefore(i) ==
    LET others == {j \in 1..(i - 1) : ~StartsWith0x(Parts[j])}
        last   == IF others = {} THEN 0 ELSE CHOOSE j \in others : \A k \in others : k <= j
    IN  i - 1 - last
IsAddressAt(i) == StartsWith0x(Parts[i]) /\ HexRunBefore(i) % 2 = 0

\* The address/file pairs of flash_args.txt, and the number an address stands for.
PairsAt == {i \in 1..(Len(Parts) - 1) : IsAddressAt(i)}
AddressAt(i) == Val(int16(Parts[i]))

\* The base name of the part after the address, in the folder that
\* db_get_bin_folder names for the chip.
ImageOfPair(i) ==
    [folder |-> db_get_bin_folder(map_call.chip_id),
     name   |-> IF "base" \in DOMAIN Parts[i + 1]
                THEN [text |-> Parts[i + 1].base] ELSE Parts[i + 1]]

C33_ObtainedLicenseIsCachedUnderKey ==
    (Ok("request") \/ Ok("via_serial")) =>
        /\ license_file_path = activation_key
        /\ ~IsNone(lic_folder[Val(activation_key)])
        /\ db_get_dlse_lic_from_local_storage(lic_folder, Val(activation_key))
              = activation_key

LogCalls == logger.calls
LogFileOf(call) == logger.files[Val(call.current)]
\* The messages of the calls that wrote into file f, in the order of the calls.
RECURSIVE WrittenTo(_, _)
WrittenTo(f, n) ==
    IF n = 0 THEN <<>>
    ELSE IF LogCalls[n].written /\ LogCalls[n].current = Some(f)
    THEN Append(WrittenTo(f, n - 1), LogCalls[n].message)
    ELSE WrittenTo(f, n - 1)

\* Every log call in `which` went to the log file current at the call - the one
\* configured last, whatever logger was used -, and a call that found no log
\* file configured made one under "logs" first.
RoutedToCurrentFile(which) ==
    \A n \in which :
        LET call == LogCalls[n]
        IN  /\ ~IsNone(call.current)
            /\ call.current = Some(call.latest)
            /\ ~call.configured => LogFileOf(call).dir = "logs"

C35_SecondIndexAloneDecides ==
    (/\ reindex.step = 2
     /\ IsNone(reindex.new_ip) /\ IsNone(reindex.new_hostname)
     /\ reindex.second.ok)
    => reindex.second.rows =
          db_csv_update_rows(reindex.rows, reindex.j, None, None, None).rows

\* The rows before and after a call differ in nothing but the value of rows
\* keyed ip_sta, wifi_hostname or ssid_ap.
OnlyIndexedValuesDiffer(before, after) ==
    /\ Len(after) = Len(before)
    /\ \A k \in 1..Len(before) :
          /\ after[k].key = before[k].key
          /\ after[k].type = before[k].type
          /\ after[k].encoding = before[k].encoding
          /\ before[k].key \notin {"ip_sta", "wifi_hostname", "ssid_ap"}
                => after[k] = before[k]

\* C36: a successful index assignment changes nothing but the value column of
\* the rows keyed ip_sta, wifi_hostname and ssid_ap: the other rows, the other
\* columns of those rows, the number and the order of the rows stay.
C36_OnlyIndexedValuesChange ==
    /\ (reindex.step >= 1 /\ reindex.first.ok) =>
          OnlyIndexedValuesDiffer(reindex.rows, reindex.first.rows)
    /\ (reindex.step = 2 /\ reindex.second.ok) =>
          OnlyIndexedValuesDiffer(reindex.first.rows, reindex.second.rows)

\* An index was assigned to a file with a namespace row, a host name and a row
\* of another key; the host name changed.
C36_Witness ==
    /\ reindex.step = 1
    /\ reindex.first.ok
    /\ reindex.rows = <<Row("settings", "namespace", "", Name("", None)),
                        Row("wifi_hostname", "data", "string", Name("Drone", Some(10))),
                        Row("udp_local_port", "data", "u16", Name("", Some(14550)))>>
    /\ reindex.first.rows[2].value = Name("Drone", Some(3))

\* The release folder named after a supported chip type.
FolderNamedAfter(chip_id) ==
    IF chip_id = ESP32C3 THEN "esp32c3_generic"
    ELSE IF chip_id = ESP32C5 THEN "esp32c5_generic"
    ELSE "esp32c6_generic"

\* C37: when a session of a supported chip is at the flash step with an address
\* map, the firmware images of the map are those of the release folder named
\* after the chip of the session.
C37_ImagesOfTheSameChip ==
    (/\ pc = "flash"
     /\ ~IsNone(address_binary_map)
     /\ Val(esp_chip_id) \in {ESP32C3, ESP32C5, ESP32C6})
    => Val(address_binary_map).firmware = FolderNamedAfter(Val(esp_chip_id))

\* The license file the running session acquired (_license_file_path).
AcquiredLicense == lic_folder[Val(license_file_path)]

\* The session's last step was the flasher, and it wrote the device.
FlashedNow ==
    /\ pc = "done"
    /\ session.steps[Len(session.steps)] = [step |-> "flash", ok |-> TRUE]

\* C38: the settings rendered, put in the address map and flashed in a session
\* hold the license the same session acquired, and the merged file shared by
\* the sessions never holds a license.
C38_LicenseOfTheSameSession ==
    /\ IsNone(merged_csv.db_lic_key)
    /\ pc \in {"address_map", "flash"} =>
          Val(settings_bin).db_lic_key = AcquiredLicense
    /\ (pc = "flash" /\ ~IsNone(address_binary_map)) =>
          Val(address_binary_map).settings.db_lic_key = AcquiredLicense
    /\ FlashedNow => dev_nvs[Device].db_lic_key = AcquiredLicense

\* A second device was flashed in a later session with a license that is not
\* the one flashed to the first device.
C38_Witness ==
    /\ FlashedNow
    /\ START_DEVICE_ID > START_DEVICE_ID_DEFAULT
    /\ ~IsNone(AcquiredLicense)
    /\ \E d \in Devices \ {Device} :
          /\ ~IsNone(dev_nvs[d].db_lic_key)
          /\ dev_nvs[d].db_lic_key # dev_nvs[Device].db_lic_key

C40_EveryNewPortIsServed ==
    /\ \A p \in Ports :
          (p \in new_ports) ~>
              (session.port = p /\ session.state \in {"Done", "Aborted"})
    /\ (new_ports # {}) ~> (pc = "poll" /\ new_ports = {})


============================================================================
